---- MODULE Spec2Model ----
(***************************************************************************)
(* Filter expression system of mnemo (src/src/client/filters.ts): the      *)
(* FilterBuilder / FieldFilter fluent builder and the filter validator;    *)
(* and the collaborators a filter or a batch passes through: QdrantClient  *)
(* (src/src/client/client.ts), BaseEmbedder (src/src/embedder/embedder.ts) *)
(* and Mnemo.upsertBatch (src/unnamed/part_003).                           *)
(*                                                                         *)
(* JavaScript values.  A primitive is a record tagged by t (its typeof,    *)
(* or "null"); an object is a record with the object's own keys, so that   *)
(* `'match' in condition` is "match" \in DOMAIN condition.  An array is an *)
(* object with identity: the conditions array of builder b is ArrayOf(b)   *)
(* (a reference, read through the heap `conditions`), an array literal     *)
(* that no builder keeps is Items(seq).                                    *)
(***************************************************************************)
EXTENDS Integers, Sequences, FiniteSets, TLC

VARIABLES
    conditions,       \* FilterBuilder.conditions, per builder (the heap of arrays)
    logicalOperator,  \* FilterBuilder.logicalOperator, per builder
    result,           \* what the last call gave its caller: a value or an error
    calls,            \* what the running operation has handed to its collaborator
                      \* so far: fetch, performEmbed or the client's upsertBatch
    task              \* the position and the locals of the running async method

vars == <<conditions, logicalOperator, result, calls, task>>

(***************************************************************************)
(* Bounds of the model: MaxConds is the number of entries the conditions    *)
(* arrays of all builders hold together.                                   *)
(***************************************************************************)
MaxConds == 3

\* MaxDepth is the number of composites nested in one another in a filter the
\* helper functions are given or return.
MaxDepth == 2

Builders == {"b1", "b2"}

\* ---- JavaScript primitives ------------------------------------------------
S(s) == [t |-> "string", v |-> s]
N(n) == [t |-> "number", v |-> n]
Undefined == [t |-> "undefined"]
Null == [t |-> "null"]

IsPrimitive(x) == "t" \in DOMAIN x
IsObject(x) == ~IsPrimitive(x)

\* typeof x
TypeOf(x) == IF IsObject(x) \/ x = Null THEN "object" ELSE x.t

\* !x is false
Truthy(x) ==
    IF IsObject(x) THEN TRUE
    ELSE CASE x.t = "string" -> x.v # ""
           [] x.t = "number" -> x.v # 0
           [] x.t = "boolean" -> x.v
           [] OTHER -> FALSE

\* obj[k], undefined when the key is absent
Get(obj, k) == IF k \in DOMAIN obj THEN obj[k] ELSE Undefined

\* ---- arrays ----------------------------------------------------------------
ArrayOf(b) == [ref |-> b]
Items(seq) == [items |-> seq]
IsRef(a) == "ref" \in DOMAIN a

\* the elements of array a in heap h
Elems(a, h) == IF IsRef(a) THEN h[a.ref] ELSE a.items

\* ---- inputs ----------------------------------------------------------------
Point == [lat |-> N(40), lon |-> N(-74)]
EqualsArgs == {<<"", N(1)>>, <<"a", N(1)>>}
NotEqualsArgs == {<<"", N(1)>>}
InRangeArgs == {<<"a", 1, 2>>, <<"", 2, 2>>, <<"a", 2, 1>>}
WithinRadiusArgs == {<<"a", Point, 1>>, <<"a", Point, 0>>, <<"a", Point, -1>>}
Operators == {"must", "should", "must_not"}

\* new FilterValidationError(message, filterType?, field?)
FilterValidationError(message, filterType, field) ==
    [name |-> "FilterValidationError", message |-> message,
     filterType |-> filterType, field |-> field]

NoError == [name |-> ""]

\* ---- FilterBuilder ---------------------------------------------------------

\* the composite `{ [op]: arr }`
Composite(op, arr) ==
    CASE op = "must" -> [must |-> arr]
      [] op = "should" -> [should |-> arr]
      [] op = "must_not" -> [must_not |-> arr]

IsComposite(f) ==
    IsObject(f) /\ (DOMAIN f \cap Operators) # {}

WrapperKey(f) == CHOOSE k \in Operators : k \in DOMAIN f

Children(f) == f[WrapperKey(f)]

\* build() that wraps under AND whatever the builder's operator is
buildAlwaysMust(h, op, b) ==
    IF Len(h[b]) = 0 THEN Null
    ELSE IF Len(h[b]) = 1 THEN h[b][1]
    ELSE Composite("must", ArrayOf(b))

\* build() that also wraps a single condition
buildWrapSingle(h, op, b) ==
    IF Len(h[b]) = 0 THEN Null
    ELSE Composite(op, ArrayOf(b))

\* FilterBuilder.build() of builder b in heap h with operator op
build(h, op, b) ==
    IF Len(h[b]) = 0 THEN Null
    ELSE IF Len(h[b]) = 1 THEN h[b][1]
    ELSE Composite(op, ArrayOf(b))

\* a push that puts the new entry in front
pushFront(h, b, c) == [h EXCEPT ![b] = <<c>> \o @]

\* this.conditions.push(c) on builder b
push(h, b, c) == [h EXCEPT ![b] = Append(@, c)]

\* the entries all conditions arrays of heap h hold together
RECURSIVE HeapSize(_, _)
HeapSize(h, bs) ==
    IF bs = {} THEN 0
    ELSE LET b == CHOOSE x \in bs : TRUE
         IN Len(h[b]) + HeapSize(h, bs \ {b})

\* what a call gives its caller: the value it returns or the error it throws
Returns(value) == [thrown |-> FALSE, error |-> NoError, value |-> value]
Throws(err) == [thrown |-> TRUE, error |-> err, value |-> Undefined]

This(b) == [builder |-> b]

\* no async method is running
Idle == [pc |-> "idle"]

Init ==
    /\ conditions = [b \in Builders |-> <<>>]
    /\ logicalOperator = [b \in Builders |-> "must"]
    /\ result = Returns(This("b1"))
    /\ calls = <<>>
    /\ task = Idle

\* FilterBuilder.addCondition(condition), reached through a FieldFilter method
AddCondition(b, c) ==
    /\ HeapSize(conditions, Builders) < MaxConds
    /\ conditions' = push(conditions, b, c)
    /\ result' = Returns(This(b))
    /\ UNCHANGED <<logicalOperator, calls, task>>

\* a call that throws before it changes anything
Throw(err) ==
    /\ result' = Throws(err)
    /\ UNCHANGED <<conditions, logicalOperator, calls, task>>

\* ---- validator -------------------------------------------------------------

\* a non-finite number: NaN, Infinity, -Infinity
NonFinite(s) == [t |-> "number", nf |-> s]

\* isFinite(x), for typeof x = "number"
isFinite(x) == "v" \in DOMAIN x

\* x < y on JavaScript numbers
Lt(x, y) ==
    CASE isFinite(x) /\ isFinite(y) -> x.v < y.v
      [] ~isFinite(x) /\ x.nf = "NaN" -> FALSE
      [] ~isFinite(y) /\ y.nf = "NaN" -> FALSE
      [] ~isFinite(x) /\ x.nf = "-Infinity" -> y # x
      [] ~isFinite(y) /\ y.nf = "Infinity" -> y # x
      [] OTHER -> FALSE

\* x <= y on JavaScript numbers
Le(x, y) ==
    CASE isFinite(x) /\ isFinite(y) -> x.v <= y.v
      [] ~isFinite(x) /\ x.nf = "NaN" -> FALSE
      [] ~isFinite(y) /\ y.nf = "NaN" -> FALSE
      [] OTHER -> x = y \/ Lt(x, y)

\* the first error of a sequence of checks, NoError when none fails
FirstError(errs) ==
    LET bad == {i \in 1..Len(errs) : errs[i] # NoError}
    IN IF bad = {} THEN NoError
       ELSE errs[CHOOSE i \in bad : \A j \in bad : i <= j]

\* validateGeoPoint(point, context)
validateGeoPoint(point, context) ==
    IF ~Truthy(point) \/ TypeOf(point) # "object"
    THEN FilterValidationError(<<"Geographic point", context, "must be an object">>,
                               Undefined, Undefined)
    ELSE LET lat == Get(point, "lat")
             lon == Get(point, "lon")
         IN IF TypeOf(lat) # "number" \/ ~isFinite(lat)
            THEN FilterValidationError(
                     <<"Geographic point", context, "latitude must be a finite number">>,
                     Undefined, Undefined)
            ELSE IF TypeOf(lon) # "number" \/ ~isFinite(lon)
            THEN FilterValidationError(
                     <<"Geographic point", context, "longitude must be a finite number">>,
                     Undefined, Undefined)
            ELSE IF Lt(lat, N(-90)) \/ Lt(N(90), lat)
            THEN FilterValidationError(
                     <<"Geographic point", context, "latitude must be between -90 and 90">>,
                     Undefined, Undefined)
            ELSE IF Lt(lon, N(-180)) \/ Lt(N(180), lon)
            THEN FilterValidationError(
                     <<"Geographic point", context, "longitude must be between -180 and 180">>,
                     Undefined, Undefined)
            ELSE NoError

\* `!x.key || typeof x.key !== 'string'`
BadKey(x) == ~Truthy(Get(x, "key")) \/ TypeOf(Get(x, "key")) # "string"

\* a Match check that takes every falsy value for a missing one
validateMatchTruthy(condition) ==
    IF "match" \notin DOMAIN condition THEN NoError
    ELSE LET match == condition.match
         IN IF BadKey(match)
            THEN FilterValidationError(<<"Match filter must have a valid key">>,
                                       S("match"), Undefined)
            ELSE IF ~Truthy(Get(match, "value"))
            THEN FilterValidationError(<<"Match filter must have a value">>,
                                       S("match"), match.key)
            ELSE NoError

\* the `'match' in condition` block of validateFilterCondition
validateMatch(condition) ==
    IF "match" \notin DOMAIN condition THEN NoError
    ELSE LET match == condition.match
         IN IF BadKey(match)
            THEN FilterValidationError(<<"Match filter must have a valid key">>,
                                       S("match"), Undefined)
            ELSE IF Get(match, "value") = Undefined \/ Get(match, "value") = Null
            THEN FilterValidationError(<<"Match filter must have a value">>,
                                       S("match"), match.key)
            ELSE NoError

\* a Range check that takes every number for a bound, finite or not
validateRangeAnyNumber(condition) ==
    IF "range" \notin DOMAIN condition THEN NoError
    ELSE LET range == condition.range
             values == SelectSeq(<<Get(range, "gte"), Get(range, "lte"),
                                   Get(range, "gt"), Get(range, "lt")>>,
                                 LAMBDA v : v # Undefined)
         IN IF BadKey(range)
            THEN FilterValidationError(<<"Range filter must have a valid key">>,
                                       S("range"), Undefined)
            ELSE IF values = <<>>
            THEN FilterValidationError(
                     <<"Range filter must have at least one condition">>,
                     S("range"), range.key)
            ELSE IF \E i \in 1..Len(values) : TypeOf(values[i]) # "number"
            THEN FilterValidationError(
                     <<"Range filter values must be finite numbers">>,
                     S("range"), range.key)
            ELSE NoError

\* a range block that checks the order of gte and lte as well
validateRangeOrdered(condition) ==
    IF validateRangeAnyNumber(condition) # NoError
    THEN validateRangeAnyNumber(condition)
    ELSE IF /\ "range" \in DOMAIN condition
            /\ {"gte", "lte"} \subseteq DOMAIN condition.range
            /\ Lt(condition.range.lte, condition.range.gte)
    THEN FilterValidationError(<<"Range minimum cannot be greater than maximum">>,
                               S("range"), condition.range.key)
    ELSE NoError

\* the `'range' in condition` block of validateFilterCondition
validateRange(condition) ==
    IF "range" \notin DOMAIN condition THEN NoError
    ELSE LET range == condition.range
             values == SelectSeq(<<Get(range, "gte"), Get(range, "lte"),
                                   Get(range, "gt"), Get(range, "lt")>>,
                                 LAMBDA v : v # Undefined)
         IN IF BadKey(range)
            THEN FilterValidationError(<<"Range filter must have a valid key">>,
                                       S("range"), Undefined)
            ELSE IF values = <<>>
            THEN FilterValidationError(
                     <<"Range filter must have at least one condition">>,
                     S("range"), range.key)
            ELSE IF \E i \in 1..Len(values) :
                        TypeOf(values[i]) # "number" \/ ~isFinite(values[i])
            THEN FilterValidationError(
                     <<"Range filter values must be finite numbers">>,
                     S("range"), range.key)
            ELSE NoError

\* the `'geo_bounding_box' in condition` block of validateFilterCondition
validateGeoBoundingBox(condition) ==
    IF "geo_bounding_box" \notin DOMAIN condition THEN NoError
    ELSE LET geo == condition.geo_bounding_box
         IN IF BadKey(geo)
            THEN FilterValidationError(
                     <<"Geographic bounding box filter must have a valid key">>,
                     S("geo_bounding_box"), Undefined)
            ELSE FirstError(<<validateGeoPoint(geo.bounding_box.top_left, "top_left"),
                              validateGeoPoint(geo.bounding_box.bottom_right,
                                               "bottom_right")>>)

\* the `'geo_radius' in condition` block of validateFilterCondition
validateGeoRadius(condition) ==
    IF "geo_radius" \notin DOMAIN condition THEN NoError
    ELSE LET geo == condition.geo_radius
         IN IF BadKey(geo)
            THEN FilterValidationError(
                     <<"Geographic radius filter must have a valid key">>,
                     S("geo_radius"), Undefined)
            ELSE IF validateGeoPoint(geo.center, "center") # NoError
            THEN validateGeoPoint(geo.center, "center")
            ELSE IF TypeOf(Get(geo, "radius")) # "number" \/ Le(geo.radius, N(0))
            THEN FilterValidationError(
                     <<"Geographic radius must be a positive number">>,
                     S("geo_radius"), geo.key)
            ELSE NoError

\* the checks of one condition, in the order of the code
LeafChecks(condition) ==
    FirstError(<<validateMatch(condition), validateRange(condition),
                 validateGeoBoundingBox(condition), validateGeoRadius(condition)>>)

\* a validator that also checks the children of a composite written in place
validateChildren(condition) ==
    IF ~Truthy(condition) \/ TypeOf(condition) # "object"
    THEN FilterValidationError(<<"Filter condition must be an object">>,
                               Undefined, Undefined)
    ELSE IF IsComposite(condition) /\ ~IsRef(Children(condition))
    THEN FirstError([i \in 1..Len(Children(condition).items) |->
                        IF IsComposite(Children(condition).items[i]) THEN NoError
                        ELSE LeafChecks(Children(condition).items[i])])
    ELSE LeafChecks(condition)

\* validateFilterCondition(condition): the error it throws, NoError when it returns
validateFilterCondition(condition) ==
    IF ~Truthy(condition) \/ TypeOf(condition) # "object"
    THEN FilterValidationError(<<"Filter condition must be an object">>,
                               Undefined, Undefined)
    ELSE LeafChecks(condition)

RECURSIVE validateLoopAll(_, _)
\* a loop that checks every entry and reports the last failure
validateLoopAll(conds, i) ==
    IF i > Len(conds) THEN NoError
    ELSE IF validateLoopAll(conds, i + 1) # NoError
    THEN validateLoopAll(conds, i + 1)
    ELSE validateFilterCondition(conds[i])

RECURSIVE validateLoop(_, _)
\* the for-loop of FilterBuilder.validate(), from entry i on
validateLoop(conds, i) ==
    IF i > Len(conds) THEN NoError
    ELSE IF validateFilterCondition(conds[i]) # NoError
    THEN validateFilterCondition(conds[i])
    ELSE validateLoop(conds, i + 1)

\* FilterBuilder.validate() on the conditions conds
validate(conds) ==
    IF Len(conds) = 0
    THEN FilterValidationError(<<"Filter must have at least one condition">>,
                               Undefined, Undefined)
    ELSE validateLoop(conds, 1)

\* ---- FieldFilter -------------------------------------------------------------

\* where(f).equals(value)
Equals(b, f, value) ==
    AddCondition(b, [match |-> [key |-> S(f), value |-> value]])

\* a notEquals that appends the Match and then the Not around it
NotEqualsBoth(b, f, value) ==
    /\ HeapSize(conditions, Builders) + 1 < MaxConds
    /\ conditions' =
          push(push(conditions, b, [match |-> [key |-> S(f), value |-> value]]), b,
               [must_not |-> Items(<<[match |-> [key |-> S(f), value |-> value]]>>)])
    /\ result' = Returns(This(b))
    /\ UNCHANGED <<logicalOperator, calls, task>>

\* where(f).notEquals(value)
NotEquals(b, f, value) ==
    AddCondition(b, [must_not |-> Items(<<[match |-> [key |-> S(f), value |-> value]]>>)])

\* inRange that appends the condition before it checks the order of the bounds
InRangeAppendFirst(b, f, min, max) ==
    /\ HeapSize(conditions, Builders) < MaxConds
    /\ conditions' = push(conditions, b,
                          [range |-> [key |-> S(f), gte |-> N(min), lte |-> N(max)]])
    /\ result' = IF Lt(N(max), N(min))
                 THEN Throws(FilterValidationError(
                          <<"Range minimum cannot be greater than maximum">>,
                          S("range"), S(f)))
                 ELSE Returns(This(b))
    /\ UNCHANGED <<logicalOperator, calls, task>>

\* where(f).inRange(min, max)
InRange(b, f, min, max) ==
    IF Lt(N(max), N(min))
    THEN Throw(FilterValidationError(<<"Range minimum cannot be greater than maximum">>,
                                     S("range"), S(f)))
    ELSE AddCondition(b, [range |-> [key |-> S(f), gte |-> N(min), lte |-> N(max)]])

\* withinRadius that rejects negative radii only
WithinRadiusAllowZero(b, f, center, radiusMeters) ==
    IF Lt(N(radiusMeters), N(0))
    THEN Throw(FilterValidationError(<<"Radius must be positive">>,
                                     S("geo_radius"), S(f)))
    ELSE AddCondition(b, [geo_radius |-> [key |-> S(f), center |-> center,
                                          radius |-> N(radiusMeters)]])

\* where(f).withinRadius(center, radiusMeters)
WithinRadius(b, f, center, radiusMeters) ==
    IF Le(N(radiusMeters), N(0))
    THEN Throw(FilterValidationError(<<"Radius must be positive">>,
                                     S("geo_radius"), S(f)))
    ELSE AddCondition(b, [geo_radius |-> [key |-> S(f), center |-> center,
                                       radius |-> N(radiusMeters)]])

\* where(f).greaterThan(value)
GreaterThan(b, f, value) ==
    AddCondition(b, [range |-> [key |-> S(f), gt |-> value]])

\* where(f).greaterThanOrEqual(value)
GreaterThanOrEqual(b, f, value) ==
    AddCondition(b, [range |-> [key |-> S(f), gte |-> value]])

\* where(f).lessThan(value)
LessThan(b, f, value) ==
    AddCondition(b, [range |-> [key |-> S(f), lt |-> value]])

\* where(f).lessThanOrEqual(value)
LessThanOrEqual(b, f, value) ==
    AddCondition(b, [range |-> [key |-> S(f), lte |-> value]])

\* where(f).matches(text)
Matches(b, f, text) == Equals(b, f, text)

\* where(f).contains(value)
Contains(b, f, value) == Equals(b, f, value)

\* an inBoundingBox that checks its corners before it appends
InBoundingBoxEager(b, f, topLeft, bottomRight) ==
    LET err == FirstError(<<validateGeoPoint(topLeft, "top_left"),
                            validateGeoPoint(bottomRight, "bottom_right")>>)
    IN IF err # NoError THEN Throw(err)
       ELSE AddCondition(b, [geo_bounding_box |->
                               [key |-> S(f),
                                bounding_box |-> [top_left |-> topLeft,
                                                  bottom_right |-> bottomRight]]])

\* where(f).inBoundingBox(topLeft, bottomRight)
InBoundingBox(b, f, topLeft, bottomRight) ==
    AddCondition(b, [geo_bounding_box |->
                        [key |-> S(f),
                         bounding_box |-> [top_left |-> topLeft,
                                           bottom_right |-> bottomRight]]])

\* ---- FilterBuilder operations ------------------------------------------------

\* a mode switch that toggles: asked for the mode the builder is in, it goes back
\* to must
SetOperatorToggle(b, op) ==
    /\ logicalOperator' =
          [logicalOperator EXCEPT ![b] = IF logicalOperator[b] = op THEN "must" ELSE op]
    /\ result' = Returns(This(b))
    /\ UNCHANGED <<conditions, calls, task>>

\* and() / or() / not(): op is the operator the method assigns
SetOperator(b, op) ==
    /\ logicalOperator' = [logicalOperator EXCEPT ![b] = op]
    /\ result' = Returns(This(b))
    /\ UNCHANGED <<conditions, calls, task>>

And(b) == SetOperator(b, "must")
Or(b) == SetOperator(b, "should")
Not(b) == SetOperator(b, "must_not")

RECURSIVE andAllParentMode(_, _, _, _)
\* an andAll that builds each argument under the parent's operator
andAllParentMode(h, ops, b, builders) ==
    IF builders = <<>> THEN h
    ELSE LET filter == build(h, ops[b], Head(builders))
         IN andAllParentMode(IF Truthy(filter) THEN push(h, b, filter) ELSE h,
                             ops, b, Tail(builders))

RECURSIVE andAllLoop(_, _, _, _)
\* the for-loop of andAll(...builders) on builder b: the heap it leaves
andAllLoop(h, ops, b, builders) ==
    IF builders = <<>> THEN h
    ELSE LET filter == build(h, ops[Head(builders)], Head(builders))
         IN andAllLoop(IF Truthy(filter) THEN push(h, b, filter) ELSE h,
                       ops, b, Tail(builders))

\* andAll(...builders)
AndAll(b, builders) ==
    /\ conditions' = andAllLoop(conditions, logicalOperator, b, builders)
    /\ HeapSize(conditions', Builders) <= MaxConds
    /\ result' = Returns(This(b))
    /\ UNCHANGED <<logicalOperator, calls, task>>

RECURSIVE orAnyLoop(_, _, _)
\* the for-loop of orAny(...builders): the orConditions it collects
orAnyLoop(h, ops, builders) ==
    IF builders = <<>> THEN <<>>
    ELSE LET filter == build(h, ops[Head(builders)], Head(builders))
         IN (IF Truthy(filter) THEN <<filter>> ELSE <<>>)
            \o orAnyLoop(h, ops, Tail(builders))

\* an orAny that appends a single sub-filter as it is, without the Or around it
orAnyCollapse(h, ops, b, builders) ==
    LET orConditions == orAnyLoop(h, ops, builders)
    IN IF Len(orConditions) > 1
       THEN push(h, b, [should |-> Items(orConditions)])
       ELSE IF Len(orConditions) = 1 THEN push(h, b, orConditions[1])
       ELSE h

\* the heap orAny(...builders) leaves
orAny(h, ops, b, builders) ==
    LET orConditions == orAnyLoop(h, ops, builders)
    IN IF Len(orConditions) > 0
       THEN push(h, b, [should |-> Items(orConditions)])
       ELSE h

\* orAny(...builders)
OrAny(b, builders) ==
    /\ conditions' = orAny(conditions, logicalOperator, b, builders)
    /\ HeapSize(conditions', Builders) <= MaxConds
    /\ result' = Returns(This(b))
    /\ UNCHANGED <<logicalOperator, calls, task>>

\* a build() that validates what it is about to return
BuildValidating(b) ==
    /\ result' = IF validate(conditions[b]) = NoError
                 THEN Returns(build(conditions, logicalOperator[b], b))
                 ELSE Throws(validate(conditions[b]))
    /\ UNCHANGED <<conditions, logicalOperator, calls, task>>

\* a build() that hands its conditions over and starts afresh
BuildAndClear(b) ==
    /\ result' = Returns(build(conditions, logicalOperator[b], b))
    /\ conditions' = [conditions EXCEPT ![b] = <<>>]
    /\ UNCHANGED <<logicalOperator, calls, task>>

\* build()
Build(b) ==
    /\ result' = Returns(build(conditions, logicalOperator[b], b))
    /\ UNCHANGED <<conditions, logicalOperator, calls, task>>

\* validate()
Validate(b) ==
    /\ result' = IF validate(conditions[b]) = NoError
                 THEN Returns(Undefined)
                 ELSE Throws(validate(conditions[b]))
    /\ UNCHANGED <<conditions, logicalOperator, calls, task>>

\* the argument lists of andAll / orAny: up to two builders, the receiver included
BuilderLists ==
    {<<>>} \cup {<<x>> : x \in Builders} \cup {<<x, y>> : x \in Builders, y \in Builders}

\* ---- helper functions ------------------------------------------------------

B(v) == [t |-> "boolean", v |-> v]

\* createEqualityFilter(field, value)
createEqualityFilter(field, value) ==
    [match |-> [key |-> field, value |-> value]]

\* a createRangeFilter that wants both bounds
createRangeFilterBoth(field, min, max) ==
    LET range == ([key |-> field]
                    @@ (IF min # Undefined THEN [gte |-> min] ELSE <<>>))
                    @@ (IF max # Undefined THEN [lte |-> max] ELSE <<>>)
    IN IF min = Undefined \/ max = Undefined
       THEN Throws(FilterValidationError(
                <<"Range filter must have at least min or max value">>,
                S("range"), field))
       ELSE Returns([range |-> range])

\* createRangeFilter(field, min?, max?); an omitted argument is undefined
createRangeFilter(field, min, max) ==
    LET range == ([key |-> field]
                    @@ (IF min # Undefined THEN [gte |-> min] ELSE <<>>))
                    @@ (IF max # Undefined THEN [lte |-> max] ELSE <<>>)
    IN IF min = Undefined /\ max = Undefined
       THEN Throws(FilterValidationError(
                <<"Range filter must have at least min or max value">>,
                S("range"), field))
       ELSE Returns([range |-> range])

\* a combineFiltersAnd that wraps a single filter too
combineFiltersAndWrapOne(filters, h) ==
    IF Len(Elems(filters, h)) = 0
    THEN Throws(FilterValidationError(<<"Cannot combine empty filter array">>,
                                      Undefined, Undefined))
    ELSE Returns([must |-> filters])

\* combineFiltersAnd(filters), the array filters read in heap h
combineFiltersAnd(filters, h) ==
    IF Len(Elems(filters, h)) = 0
    THEN Throws(FilterValidationError(<<"Cannot combine empty filter array">>,
                                      Undefined, Undefined))
    ELSE IF Len(Elems(filters, h)) = 1 THEN Returns(Elems(filters, h)[1])
    ELSE Returns([must |-> filters])

\* combineFiltersOr(filters), the array filters read in heap h
combineFiltersOr(filters, h) ==
    IF Len(Elems(filters, h)) = 0
    THEN Throws(FilterValidationError(<<"Cannot combine empty filter array">>,
                                      Undefined, Undefined))
    ELSE IF Len(Elems(filters, h)) = 1 THEN Returns(Elems(filters, h)[1])
    ELSE Returns([should |-> filters])

\* a negateFilter that takes the Not off a negated filter
negateFilterSimplify(filter) ==
    IF DOMAIN filter = {"must_not"} /\ ~IsRef(filter.must_not)
         /\ Len(filter.must_not.items) = 1
    THEN filter.must_not.items[1]
    ELSE [must_not |-> Items(<<filter>>)]

\* negateFilter(filter)
negateFilter(filter) == [must_not |-> Items(<<filter>>)]

\* an isEmptyFilter that looks at must and should only
isEmptyFilterNoNot(filter, h) ==
    IF ~Truthy(filter) THEN TRUE
    ELSE IF "must" \in DOMAIN filter THEN Len(Elems(filter.must, h)) = 0
    ELSE IF "should" \in DOMAIN filter THEN Len(Elems(filter.should, h)) = 0
    ELSE FALSE

\* isEmptyFilter(filter), arrays read in heap h
isEmptyFilter(filter, h) ==
    IF ~Truthy(filter) THEN TRUE
    ELSE IF "must" \in DOMAIN filter THEN Len(Elems(filter.must, h)) = 0
    ELSE IF "should" \in DOMAIN filter THEN Len(Elems(filter.should, h)) = 0
    ELSE IF "must_not" \in DOMAIN filter THEN Len(Elems(filter.must_not, h)) = 0
    ELSE FALSE

\* ---- JSON ------------------------------------------------------------------
\* A JSON text is the sequence of its tokens.  Ws(n) is the line break and the
\* n spaces of indentation JSON.stringify(value, null, 2) writes.
P(c) == [p |-> c]
Str(s) == [str |-> s]
Num(n) == [num |-> n]
Lit(w) == [lit |-> w]
Ws(n) == [ws |-> n]

JsonText(tokens) == [t |-> "string", json |-> tokens]

TypeError(message) == [name |-> "TypeError", message |-> message]

IsArray(x) == IsObject(x) /\ (DOMAIN x = {"ref"} \/ DOMAIN x = {"items"})

\* the property names of the filter objects, in the order the code writes them
KeyOrder ==
    <<"must", "should", "must_not", "match", "range", "geo_bounding_box",
      "geo_radius", "key", "value", "gte", "lte", "gt", "lt", "center", "radius",
      "bounding_box", "top_left", "bottom_right", "lat", "lon">>

RECURSIVE JoinComma(_)
\* the parts of a list, a comma between two
JoinComma(parts) ==
    IF Len(parts) = 1 THEN parts[1]
    ELSE parts[1] \o <<P(",")>> \o JoinComma(Tail(parts))

RECURSIVE Circular(_, _, _)
\* value x reaches an array that is being written (stack): JSON.stringify throws
Circular(x, h, stack) ==
    IF IsPrimitive(x) THEN FALSE
    ELSE IF IsArray(x)
    THEN IF IsRef(x) /\ x.ref \in stack THEN TRUE
         ELSE \E i \in 1..Len(Elems(x, h)) :
                 Circular(Elems(x, h)[i], h,
                          stack \cup (IF IsRef(x) THEN {x.ref} ELSE {}))
    ELSE \E k \in DOMAIN x : Circular(x[k], h, stack)

RECURSIVE SerializeJSONProperty(_, _, _)
\* the tokens JSON.stringify writes for value x at indentation ind
SerializeJSONProperty(x, h, ind) ==
    IF IsPrimitive(x)
    THEN CASE x.t = "string" -> <<Str(x.v)>>
           [] x.t = "number" -> IF isFinite(x) THEN <<Num(x.v)>> ELSE <<Lit("null")>>
           [] x.t = "boolean" -> <<Lit(IF x.v THEN "true" ELSE "false")>>
           [] OTHER -> <<Lit("null")>>
    ELSE IF IsArray(x)
    THEN LET es == Elems(x, h)
         IN IF es = <<>> THEN <<P("["), P("]")>>
            ELSE <<P("[")>>
                 \o JoinComma([i \in 1..Len(es) |->
                       <<Ws(ind + 2)>> \o SerializeJSONProperty(es[i], h, ind + 2)])
                 \o <<Ws(ind), P("]")>>
    ELSE LET keys == SelectSeq(KeyOrder, LAMBDA k : k \in DOMAIN x /\ x[k] # Undefined)
         IN IF keys = <<>> THEN <<P("{"), P("}")>>
            ELSE <<P("{")>>
                 \o JoinComma([i \in 1..Len(keys) |->
                       <<Ws(ind + 2), Str(keys[i]), P(":")>>
                       \o SerializeJSONProperty(x[keys[i]], h, ind + 2)])
                 \o <<Ws(ind), P("}")>>

\* JSON.stringify(value, null, 2)
JSONstringify(value, h) ==
    IF Circular(value, h, {})
    THEN Throws(TypeError(<<"Converting circular structure to JSON">>))
    ELSE IF value = Undefined THEN Returns(Undefined)
    ELSE Returns(JsonText(SerializeJSONProperty(value, h, 0)))

\* serializeFilter(filter)
serializeFilter(filter, h) == JSONstringify(filter, h)

EmptyObject == [k \in {} |-> Undefined]

RECURSIVE ParseValue(_, _)
RECURSIVE ParseElements(_, _, _)
RECURSIVE ParseMembers(_, _, _)

\* the value that starts at token i, and the index of the token after it
ParseValue(toks, i) ==
    LET tk == toks[i]
    IN IF "str" \in DOMAIN tk THEN [v |-> S(tk.str), next |-> i + 1]
       ELSE IF "num" \in DOMAIN tk THEN [v |-> N(tk.num), next |-> i + 1]
       ELSE IF "lit" \in DOMAIN tk
       THEN [v |-> CASE tk.lit = "null" -> Null
                     [] tk.lit = "true" -> B(TRUE)
                     [] tk.lit = "false" -> B(FALSE),
             next |-> i + 1]
       ELSE IF tk = P("[")
       THEN IF toks[i + 1] = P("]") THEN [v |-> Items(<<>>), next |-> i + 2]
            ELSE ParseElements(toks, i + 1, <<>>)
       ELSE IF toks[i + 1] = P("}") THEN [v |-> EmptyObject, next |-> i + 2]
            ELSE ParseMembers(toks, i + 1, EmptyObject)

\* the elements of an array from token i on; acc holds the elements read so far
ParseElements(toks, i, acc) ==
    LET e == ParseValue(toks, i)
    IN IF toks[e.next] = P(",")
       THEN ParseElements(toks, e.next + 1, Append(acc, e.v))
       ELSE [v |-> Items(Append(acc, e.v)), next |-> e.next + 1]

\* the members of an object from token i on; acc holds the members read so far
ParseMembers(toks, i, acc) ==
    LET m == ParseValue(toks, i + 2)
        obj == (toks[i].str :> m.v) @@ acc
    IN IF toks[m.next] = P(",")
       THEN ParseMembers(toks, m.next + 1, obj)
       ELSE [v |-> obj, next |-> m.next + 1]

\* JSON.parse(text): white space between tokens is skipped
JSONparse(text) ==
    ParseValue(SelectSeq(text.json, LAMBDA tk : "ws" \notin DOMAIN tk), 1).v

\* ---- specifications ----------------------------------------------------------

\* composing builders: equality conditions, mode switches, andAll / orAny, build
Next ==
    \/ \E b \in Builders, a \in EqualsArgs : Equals(b, a[1], a[2])
    \/ \E b \in Builders : And(b)
    \/ \E b \in Builders : Or(b)
    \/ \E b \in Builders : Not(b)
    \/ \E b \in Builders, bs \in BuilderLists : AndAll(b, bs)
    \/ \E b \in Builders, bs \in BuilderLists : OrAny(b, bs)
    \/ \E b \in Builders : Build(b)

Spec == Init /\ [][Next]_vars

\* one builder used through where(field): every kind of condition, the eager
\* checks, build and validate
NextField ==
    \/ \E a \in EqualsArgs : Equals("b1", a[1], a[2])
    \/ \E a \in NotEqualsArgs : NotEquals("b1", a[1], a[2])
    \/ \E a \in InRangeArgs : InRange("b1", a[1], a[2], a[3])
    \/ \E a \in WithinRadiusArgs : WithinRadius("b1", a[1], a[2], a[3])
    \/ And("b1")
    \/ Or("b1")
    \/ Not("b1")
    \/ \E bs \in BuilderLists : AndAll("b1", bs)
    \/ \E bs \in BuilderLists : OrAny("b1", bs)
    \/ Build("b1")
    \/ Validate("b1")

SpecField == Init /\ [][NextField]_vars

\* validating builders that hold composites
NextNested ==
    \/ \E b \in Builders, a \in EqualsArgs : Equals(b, a[1], a[2])
    \/ \E b \in Builders, a \in NotEqualsArgs : NotEquals(b, a[1], a[2])
    \/ \E b \in Builders : Or(b)
    \/ \E b \in Builders, bs \in BuilderLists : AndAll(b, bs)
    \/ \E b \in Builders, bs \in BuilderLists : OrAny(b, bs)
    \/ \E b \in Builders : Validate(b)

SpecNested == Init /\ [][NextNested]_vars

\* ---- the helper functions, called with filters a caller holds -----------------

\* arguments of createEqualityFilter(field, value)
EqualityFilterArgs == {<<S("a"), S("x")>>, <<S("a"), B(FALSE)>>}

\* arguments of createRangeFilter(field, min, max)
RangeFilterArgs ==
    {<<S("a"), Undefined, Undefined>>, <<S("a"), N(1), Undefined>>,
     <<S("a"), Undefined, N(2)>>, <<S("a"), N(1), N(2)>>, <<S("a"), N(2), N(1)>>,
     <<S("a"), N(0), NonFinite("Infinity")>>}

\* the filter the last call returned, if it returned one
Held ==
    IF ~result.thrown /\ IsObject(result.value) /\ "builder" \notin DOMAIN result.value
    THEN {result.value}
    ELSE {}

\* the filters a caller passes on: the one it holds and new equality filters
Filters == Held \cup {createEqualityFilter(a[1], a[2]) : a \in EqualityFilterArgs}

\* the array literals a caller passes to combineFiltersAnd / combineFiltersOr
FilterLists ==
    {Items(<<>>)} \cup {Items(<<f>>) : f \in Filters}
                  \cup {Items(<<f, g>>) : f \in Filters, g \in Filters}

\* the composites with no child, as a caller writes them
EmptyComposites ==
    {[must |-> Items(<<>>)], [should |-> Items(<<>>)], [must_not |-> Items(<<>>)]}

RECURSIVE Depth(_, _, _)
\* the number of composites nested in one another in filter f, counted up to n
Depth(f, h, n) ==
    IF ~IsComposite(f) \/ n = 0 THEN 0
    ELSE LET kids == Elems(Children(f), h)
             d == [i \in 1..Len(kids) |-> Depth(kids[i], h, n - 1)]
         IN 1 + (IF kids = <<>> THEN 0
                 ELSE d[CHOOSE i \in 1..Len(kids) : \A j \in 1..Len(kids) : d[i] >= d[j]])

\* a call of a helper function: it returns or throws and touches no builder
Call(outcome) ==
    /\ result' = outcome
    /\ ~outcome.thrown => Depth(outcome.value, conditions, MaxDepth + 1) <= MaxDepth
    /\ UNCHANGED <<conditions, logicalOperator, calls, task>>

CreateEqualityFilter(field, value) ==
    Call(Returns(createEqualityFilter(field, value)))

CreateRangeFilter(field, min, max) ==
    Call(createRangeFilter(field, min, max))

CombineFiltersAnd(filters) == Call(combineFiltersAnd(filters, conditions))

CombineFiltersOr(filters) == Call(combineFiltersOr(filters, conditions))

NegateFilter(filter) == Call(Returns(negateFilter(filter)))

IsEmptyFilter(filter) == Call(Returns(B(isEmptyFilter(filter, conditions))))

SerializeFilter(filter) == Call(serializeFilter(filter, conditions))

\* values that are no objects
NonObjects == {Null, Undefined, S("x"), S(""), N(0), N(1), B(TRUE)}

\* Match conditions as a caller may write them
MatchInputs ==
    {[match |-> m] : m \in
        {[key |-> S("a"), value |-> v] :
            v \in {N(1), N(0), B(FALSE), B(TRUE), S(""), S("x"), Null, Undefined}}
        \cup {[key |-> k, value |-> N(1)] : k \in {S(""), N(1), Null, Undefined}}
        \cup {[key |-> S("a")], [value |-> N(1)], [key |-> S(""), value |-> Null]}}

\* the bounds a caller may give a Range
BoundInputs ==
    {N(1), N(0), NonFinite("NaN"), NonFinite("Infinity"), NonFinite("-Infinity"),
     S("1"), Null}

\* Range conditions as a caller may write them
RangeInputs ==
    {[range |-> r] : r \in
        {[key |-> S("a"), gte |-> v] : v \in BoundInputs \cup {Undefined}}
        \cup {[key |-> S("a"), lte |-> v] : v \in BoundInputs}
        \cup {[key |-> S("a"), gt |-> v] : v \in BoundInputs}
        \cup {[key |-> S("a"), lt |-> v] : v \in BoundInputs}
        \cup {[key |-> S("a"), gte |-> N(2), lte |-> v] : v \in BoundInputs}
        \cup {[key |-> S("a"), gt |-> v, lt |-> N(2)] : v \in BoundInputs}
        \cup {[key |-> k, gte |-> N(1)] : k \in {S(""), N(1), Null}}
        \cup {[key |-> S("a")], [gte |-> N(1)], [key |-> S("")]}}

\* the points a caller may give a geographic condition
PointInputs ==
    {[lat |-> la, lon |-> N(0)] :
        la \in {N(0), N(90), N(-90), N(91), N(-91), NonFinite("NaN"),
                NonFinite("Infinity"), S("1"), Undefined}}
    \cup {[lat |-> N(0), lon |-> lo] :
        lo \in {N(180), N(-180), N(181), N(-181), NonFinite("NaN"),
                NonFinite("-Infinity"), S("1"), Undefined}}
    \cup {[lat |-> N(91), lon |-> N(181)], [lat |-> N(0)], [lon |-> N(0)],
          Null, Undefined, S("x")}

\* the radii a caller may give a GeoRadius
RadiusInputs ==
    {N(1), N(0), N(-1), NonFinite("NaN"), NonFinite("Infinity"),
     NonFinite("-Infinity"), S("1"), Null, Undefined}

\* GeoRadius conditions as a caller may write them
GeoRadiusInputs ==
    {[geo_radius |-> g] : g \in
        {[key |-> S("a"), center |-> p, radius |-> N(1)] : p \in PointInputs}
        \cup {[key |-> S("a"), center |-> Point, radius |-> r] : r \in RadiusInputs}
        \cup {[key |-> k, center |-> Point, radius |-> N(1)] :
                 k \in {S(""), N(1), Undefined}}
        \cup {[key |-> S("a"), center |-> Point],
              [key |-> S(""), center |-> Null, radius |-> N(0)]}}

\* the corners a caller may give a GeoBoundingBox
CornerInputs ==
    {[lat |-> N(90), lon |-> N(-180)], [lat |-> N(-91), lon |-> N(0)],
     [lat |-> N(0), lon |-> N(181)], [lat |-> NonFinite("Infinity"), lon |-> N(0)],
     [lat |-> N(0), lon |-> NonFinite("NaN")], [lat |-> N(0)], Null}

\* GeoBoundingBox conditions as a caller may write them
GeoBoundingBoxInputs ==
    {[geo_bounding_box |-> g] : g \in
        {[key |-> S("a"), bounding_box |-> [top_left |-> p, bottom_right |-> Point]] :
            p \in CornerInputs}
        \cup {[key |-> S("a"), bounding_box |-> [top_left |-> Point, bottom_right |-> p]] :
            p \in CornerInputs}
        \cup {[key |-> k, bounding_box |-> [top_left |-> Point, bottom_right |-> Point]] :
            k \in {S(""), N(1), Undefined}}
        \cup {[key |-> S("a"),
               bounding_box |-> [top_left |-> [lat |-> N(91), lon |-> N(0)],
                                 bottom_right |-> [lat |-> N(0), lon |-> N(181)]]]}}

\* validateFilterCondition(condition)
ValidateFilterCondition(condition) ==
    LET err == validateFilterCondition(condition)
    IN Call(IF err = NoError THEN Returns(Undefined) ELSE Throws(err))

\* the helper functions applied to filters made by the helper functions
NextPure ==
    \/ \E a \in EqualityFilterArgs : CreateEqualityFilter(a[1], a[2])
    \/ \E a \in RangeFilterArgs : CreateRangeFilter(a[1], a[2], a[3])
    \/ \E filters \in FilterLists : CombineFiltersAnd(filters)
    \/ \E filters \in FilterLists : CombineFiltersOr(filters)
    \/ \E f \in Filters : NegateFilter(f)
    \/ \E f \in Filters \cup EmptyComposites \cup {Null, Undefined} : IsEmptyFilter(f)
    \/ \E f \in Filters : SerializeFilter(f)

SpecPure == Init /\ [][NextPure]_vars

\* the value the caller holds: what the last call returned
HeldValue == IF result.thrown THEN {} ELSE {result.value}

\* the values a caller may hand to validateFilterCondition
ConditionInputs ==
    NonObjects \cup MatchInputs \cup RangeInputs \cup GeoRadiusInputs
               \cup GeoBoundingBoxInputs

\* a caller holds a condition it wrote
InitValidator ==
    /\ conditions = [b \in Builders |-> <<>>]
    /\ logicalOperator = [b \in Builders |-> "must"]
    /\ result \in {Returns(c) : c \in ConditionInputs}
    /\ calls = <<>>
    /\ task = Idle

\* the validator applied to the value the caller holds
NextValidator == \E c \in HeldValue : ValidateFilterCondition(c)

SpecValidator == InitValidator /\ [][NextValidator]_vars

\* ---- builders taken as arguments, and used afterwards --------------------------

\* addCondition(condition) while all builders together hold fewer than max entries
AddConditionWithin(max, b, c) ==
    /\ HeapSize(conditions, Builders) < max
    /\ conditions' = push(conditions, b, c)
    /\ result' = Returns(This(b))
    /\ UNCHANGED <<logicalOperator, calls, task>>

\* where(f).equals(value), with room for one entry more than andAll / orAny have:
\* the append to a builder that was an argument
EqualsAfter(b, f, value) ==
    AddConditionWithin(MaxConds + 1, b, [match |-> [key |-> S(f), value |-> value]])

NextSnapshot ==
    \/ \E b \in Builders, a \in EqualsArgs : EqualsAfter(b, a[1], a[2])
    \/ \E b \in Builders : Or(b)
    \/ \E b \in Builders, bs \in BuilderLists : AndAll(b, bs)
    \/ \E b \in Builders, bs \in BuilderLists : OrAny(b, bs)
    \/ \E b \in Builders : Build(b)

SpecSnapshot == Init /\ [][NextSnapshot]_vars

\* ---- range conditions: inRange, createRangeFilter, addCondition, validate --------

NextRange ==
    \/ \E a \in RangeFilterArgs : CreateRangeFilter(a[1], a[2], a[3])
    \/ \E c \in Held : AddCondition("b1", c)
    \/ \E a \in InRangeArgs : InRange("b1", a[1], a[2], a[3])
    \/ Validate("b1")

SpecRange == Init /\ [][NextRange]_vars

\* ---- every terminal method of where(field) ------------------------------------

\* arguments of matches, contains and the four comparisons
TextArgs == {<<"a", S("x")>>}
CompareArgs == {<<"a", N(1)>>}

\* arguments of inBoundingBox: corners in range, a latitude and a longitude out of
\* range
InBoundingBoxArgs ==
    {<<"a", Point, Point>>,
     <<"a", [lat |-> N(91), lon |-> N(0)], Point>>,
     <<"a", Point, [lat |-> N(0), lon |-> N(-181)]>>}

\* one builder, every terminal method, a mode switch and validate
NextTerminal ==
    \/ \E a \in TextArgs : Equals("b1", a[1], a[2])
    \/ \E a \in NotEqualsArgs : NotEquals("b1", a[1], a[2])
    \/ \E a \in TextArgs : Matches("b1", a[1], a[2])
    \/ \E a \in TextArgs : Contains("b1", a[1], a[2])
    \/ \E a \in CompareArgs : GreaterThan("b1", a[1], a[2])
    \/ \E a \in CompareArgs : GreaterThanOrEqual("b1", a[1], a[2])
    \/ \E a \in CompareArgs : LessThan("b1", a[1], a[2])
    \/ \E a \in CompareArgs : LessThanOrEqual("b1", a[1], a[2])
    \/ \E a \in InRangeArgs : InRange("b1", a[1], a[2], a[3])
    \/ \E a \in InBoundingBoxArgs : InBoundingBox("b1", a[1], a[2], a[3])
    \/ \E a \in WithinRadiusArgs : WithinRadius("b1", a[1], a[2], a[3])
    \/ Or("b1")
    \/ Validate("b1")

SpecTerminal == Init /\ [][NextTerminal]_vars

\* ---- BaseEmbedder: embed and withRetry (src/src/embedder/embedder.ts) ----------

\* the largest config.maxRetries of an embedder; validateConfig keeps it >= 0
MaxRetries == 3

\* the texts embed is called with; LongText stands for a string of 100001 characters
LongText == "long"
Texts == {S("hello"), S("world"), S(" "), S(LongText), N(7)}

\* text.length and text.trim() of the strings above
length(v) == IF v = LongText THEN 100001 ELSE IF v = " " THEN 1 ELSE 5
trim(v) == IF v = " " THEN "" ELSE v

EmbedderError(message, cause) ==
    [name |-> "EmbedderError", message |-> message, cause |-> cause]
EmbedderConnectionError(message, cause) ==
    [name |-> "EmbedderConnectionError", message |-> message, cause |-> cause]
EmbedderValidationError(message) ==
    [name |-> "EmbedderValidationError", message |-> message, cause |-> Undefined]

\* error instanceof EmbedderError
IsEmbedderError(error) ==
    error.name \in {"EmbedderError", "EmbedderConnectionError", "EmbedderValidationError"}

\* validateInput(text): the error it throws, NoError if none
validateInput(text) ==
    IF TypeOf(text) # "string"
    THEN EmbedderValidationError(<<"Input must be a string">>)
    ELSE IF trim(text.v) = ""
    THEN EmbedderValidationError(<<"Input text cannot be empty">>)
    ELSE IF length(text.v) > 100000
    THEN EmbedderValidationError(<<"Input text is too long (max 100,000 characters)">>)
    ELSE NoError

\* validateOutput(embedding): the error it throws, NoError if none
validateOutput(embedding) ==
    IF ~IsArray(embedding)
    THEN EmbedderError(<<"Embedding result must be an array">>, Undefined)
    ELSE IF Len(embedding.items) = 0
    THEN EmbedderError(<<"Embedding result cannot be empty">>, Undefined)
    ELSE IF \E i \in 1..Len(embedding.items) :
                \/ TypeOf(embedding.items[i]) # "number"
                \/ embedding.items[i] = NonFinite("NaN")
    THEN EmbedderError(<<"Embedding result must contain only valid numbers">>, Undefined)
    ELSE NoError

\* what a provider's performEmbed(text) resolves to, and what it rejects with
Embedding(text) ==
    Items(<<N(length(text.v)), N(IF text.v = "hello" THEN 1 ELSE 2)>>)
PerformEmbedOutcomes(text) ==
    {Returns(Embedding(text)), Returns(Items(<<>>)),
     Returns(Items(<<N(1), NonFinite("NaN")>>)), Returns(S("not an array")),
     Throws([name |-> "Error", message |-> <<"Temporary failure">>]),
     Throws(EmbedderError(<<"Rate limited">>, Undefined)),
     Throws(EmbedderValidationError(<<"Rejected by the provider">>))}

\* the promise embed() returned is still pending
Pending == [promise |-> "pending"]

\* a catch block of withRetry that gives up one attempt early
withRetryCatchEarly(attempt, maxRetries, error) ==
    IF error.name = "EmbedderValidationError" THEN "throw"
    ELSE IF attempt + 1 >= maxRetries THEN "break"
    ELSE "delay"

\* the catch block of withRetry: rethrow, leave the loop, or wait and retry
withRetryCatch(attempt, maxRetries, error) ==
    IF error.name = "EmbedderValidationError" THEN "throw"
    ELSE IF attempt = maxRetries THEN "break"
    ELSE "delay"

\* the error withRetry throws once the loop is over
AllRetriesFailed(operationName, maxRetries, lastError) ==
    EmbedderConnectionError(
        <<operationName, " failed after ", ToString(maxRetries + 1), " attempts">>,
        lastError)

\* the catch block of embed
embedCatch(error) ==
    IF IsEmbedderError(error) THEN error
    ELSE EmbedderError(<<"Embedding failed: ">> \o error.message, error)

\* embed(text) on an embedder with config.maxRetries = maxRetries, up to its
\* first await: validateInput, then withRetry calls performEmbed(text)
Embed(text, maxRetries) ==
    /\ task = Idle
    /\ IF validateInput(text) # NoError
       THEN /\ result' = Throws(embedCatch(validateInput(text)))
            /\ calls' = <<>>
            /\ task' = Idle
       ELSE /\ result' = Returns(Pending)
            /\ calls' = <<text>>
            /\ task' = [pc |-> "operation", text |-> text, maxRetries |-> maxRetries,
                        attempt |-> 0, lastError |-> Undefined]
    /\ UNCHANGED <<conditions, logicalOperator>>

\* the promise of performEmbed settles and embed runs on to its next await or
\* to its end
PerformEmbedSettles(outcome) ==
    /\ task.pc = "operation"
    /\ outcome \in PerformEmbedOutcomes(task.text)
    /\ IF ~outcome.thrown
       THEN /\ result' = IF validateOutput(outcome.value) = NoError
                         THEN Returns(outcome.value)
                         ELSE Throws(embedCatch(validateOutput(outcome.value)))
            /\ task' = Idle
       ELSE CASE withRetryCatch(task.attempt, task.maxRetries, outcome.error) = "throw" ->
                    /\ result' = Throws(embedCatch(outcome.error))
                    /\ task' = Idle
              [] withRetryCatch(task.attempt, task.maxRetries, outcome.error) = "break" ->
                    /\ result' = Throws(embedCatch(
                                     AllRetriesFailed("embed", task.maxRetries, outcome.error)))
                    /\ task' = Idle
              [] OTHER ->
                    /\ result' = result
                    /\ task' = [task EXCEPT !.pc = "delay", !.lastError = outcome.error]
    /\ UNCHANGED <<conditions, logicalOperator, calls>>

\* the timer of this.delay fires: attempt++, the loop test, the next performEmbed
DelayElapses ==
    /\ task.pc = "delay"
    /\ IF task.attempt + 1 <= task.maxRetries
       THEN /\ calls' = Append(calls, task.text)
            /\ task' = [task EXCEPT !.pc = "operation", !.attempt = task.attempt + 1]
            /\ result' = result
       ELSE /\ result' = Throws(embedCatch(
                             AllRetriesFailed("embed", task.maxRetries, task.lastError)))
            /\ task' = Idle
            /\ calls' = calls
    /\ UNCHANGED <<conditions, logicalOperator>>

Settles ==
    /\ task.pc = "operation"
    /\ \E outcome \in PerformEmbedOutcomes(task.text) : PerformEmbedSettles(outcome)

NextEmbed ==
    \/ \E text \in Texts, maxRetries \in 0..MaxRetries : Embed(text, maxRetries)
    \/ Settles
    \/ DelayElapses

\* every promise of performEmbed settles and every timer fires
SpecEmbed ==
    Init /\ [][NextEmbed]_vars /\ WF_vars(Settles) /\ WF_vars(DelayElapses)

\* ---- Mnemo.upsertBatch (src/unnamed/part_003) ----------------------------------

\* the longest records array upsertBatch is given
MaxRecords == 3

\* the largest config.maxBatchSize of a Mnemo instance
MaxBatchSize == 2

QdrantValidationError(message) == [name |-> "QdrantValidationError", message |-> message]
QdrantError(message) == [name |-> "QdrantError", message |-> message]

\* the records a caller passes: two good ones, one with a blank id, one with an
\* empty vector, one with NaN in its vector
VectorRecord(id, vector) == [id |-> S(id), vector |-> Items(vector)]
RecordInputs ==
    {VectorRecord("doc:1", <<N(1), N(2)>>), VectorRecord("doc:2", <<N(3), N(4)>>),
     VectorRecord(" ", <<N(1), N(2)>>), VectorRecord("doc:3", <<>>),
     VectorRecord("doc:4", <<N(1), NonFinite("NaN")>>)}

RECURSIVE SeqsUpTo(_, _)
\* the sequences over the set elems of length at most n
SeqsUpTo(elems, n) ==
    IF n = 0 THEN {<<>>}
    ELSE LET shorter == SeqsUpTo(elems, n - 1)
         IN shorter \cup {Append(q, x) : q \in shorter, x \in elems}

RecordLists == SeqsUpTo(RecordInputs, MaxRecords)

\* validateVectorRecord(record): the error it throws, NoError if none
validateVectorRecord(record, validateDimensions) ==
    IF ~Truthy(S(trim(record.id.v)))
    THEN QdrantValidationError(<<"Record ID is required and cannot be empty">>)
    ELSE IF ~IsArray(record.vector) \/ Len(record.vector.items) = 0
    THEN QdrantValidationError(
             <<"Record vector is required and must be a non-empty array">>)
    ELSE IF /\ validateDimensions
            /\ \E i \in 1..Len(record.vector.items) :
                  \/ TypeOf(record.vector.items[i]) # "number"
                  \/ record.vector.items[i] = NonFinite("NaN")
    THEN QdrantValidationError(<<"Record vector must contain only valid numbers">>)
    ELSE NoError

RECURSIVE validateRecords(_, _, _)
\* the loop `for (const record of records) this.validateVectorRecord(record)`
validateRecords(records, validateDimensions, i) ==
    IF i > Len(records) THEN NoError
    ELSE IF validateVectorRecord(records[i], validateDimensions) # NoError
    THEN validateVectorRecord(records[i], validateDimensions)
    ELSE validateRecords(records, validateDimensions, i + 1)

\* a slice that forgets its end
sliceToEnd(arr, start, end) ==
    SubSeq(arr, start + 1, Len(arr))

\* arr.slice(start, end) for 0 <= start <= end
slice(arr, start, end) ==
    SubSeq(arr, start + 1, IF end < Len(arr) THEN end ELSE Len(arr))

\* upsertBatch(records, collection) on a Mnemo with the given config, up to its
\* first await: the checks, then the first this.qdrant.upsertBatch(...)
UpsertBatch(records, collection, maxBatchSize, validateDimensions) ==
    /\ task = Idle
    /\ IF Len(records) = 0
       THEN /\ result' = Throws(QdrantValidationError(<<"Records array cannot be empty">>))
            /\ calls' = <<>>
            /\ task' = Idle
       ELSE IF validateRecords(records, validateDimensions, 1) # NoError
       THEN /\ result' = Throws(validateRecords(records, validateDimensions, 1))
            /\ calls' = <<>>
            /\ task' = Idle
       ELSE LET collectionName == IF Truthy(collection) THEN collection ELSE S("default")
            IN /\ result' = Returns(Pending)
               /\ calls' = <<[collectionName |-> collectionName,
                              records |-> IF Len(records) <= maxBatchSize THEN records
                                          ELSE slice(records, 0, maxBatchSize)]>>
               /\ task' = [pc |-> "upsert", records |-> records,
                           collectionName |-> collectionName,
                           maxBatchSize |-> maxBatchSize,
                           validateDimensions |-> validateDimensions, i |-> 0]
    /\ UNCHANGED <<conditions, logicalOperator>>

\* what this.qdrant.upsertBatch(...) resolves to or rejects with
UpsertOutcomes ==
    {Returns([status |-> S("ok")]), Throws(QdrantError(<<"Request failed">>))}

\* the promise of this.qdrant.upsertBatch settles and upsertBatch runs on to
\* its next await or to its end
UpsertSettles(outcome) ==
    /\ task.pc = "upsert"
    /\ outcome \in UpsertOutcomes
    /\ IF outcome.thrown
       THEN /\ result' = Throws(outcome.error)
            /\ calls' = calls
            /\ task' = Idle
       ELSE IF \/ Len(task.records) <= task.maxBatchSize
               \/ ~(task.i + task.maxBatchSize < Len(task.records))
       THEN /\ result' = Returns(Undefined)
            /\ calls' = calls
            /\ task' = Idle
       ELSE /\ result' = result
            /\ calls' = Append(calls,
                           [collectionName |-> task.collectionName,
                            records |-> slice(task.records, task.i + task.maxBatchSize,
                                              task.i + task.maxBatchSize + task.maxBatchSize)])
            /\ task' = [task EXCEPT !.i = task.i + task.maxBatchSize]
    /\ UNCHANGED <<conditions, logicalOperator>>

NextUpsert ==
    \/ \E records \in RecordLists, collection \in {Undefined, S("news")},
          maxBatchSize \in 1..MaxBatchSize, validateDimensions \in BOOLEAN :
          UpsertBatch(records, collection, maxBatchSize, validateDimensions)
    \/ \E outcome \in UpsertOutcomes : UpsertSettles(outcome)

SpecUpsert == Init /\ [][NextUpsert]_vars

\* ---- BaseEmbedder.embedBatch (src/src/embedder/embedder.ts) ---------------------

\* the longest texts array embedBatch is given
MaxTexts == 3

TextLists == SeqsUpTo({S("hello"), S("world"), S(" ")}, MaxTexts)

\* what the promise of this.embed(text) settles with: embed rejects a text that
\* validateInput refuses before it awaits anything
EmbedOutcomes(text) ==
    IF validateInput(text) # NoError
    THEN {Throws(embedCatch(validateInput(text)))}
    ELSE {Returns(Embedding(text)),
          Throws(embedCatch(AllRetriesFailed("embed", MaxRetries,
                     [name |-> "Error", message |-> <<"Temporary failure">>])))}

\* an assignment that appends instead of writing at the index
storeAtEnd(arr, index, value) ==
    [k \in DOMAIN arr \cup {Cardinality(DOMAIN arr)} |->
        IF k \in DOMAIN arr THEN arr[k] ELSE value]

\* arr[index] = value on a JavaScript array arr, which may have holes
store(arr, index, value) ==
    [k \in DOMAIN arr \cup {index} |-> IF k = index THEN value ELSE arr[k]]

\* the empty array
NoEntries == [k \in {} |-> Undefined]

\* the indices of the batch that starts at index i
BatchIndices(texts, batchSize, i) ==
    {k \in 0..(Len(texts) - 1) : i <= k /\ k < i + batchSize}

\* batch.map(async (text, index) => ...): the promises right after the map
\* ran every callback up to its await
batchPromises(texts, batchSize, i) ==
    [k \in BatchIndices(texts, batchSize, i) |->
        IF validateInput(texts[k + 1]) # NoError
        THEN Throws(embedCatch(validateInput(texts[k + 1])))
        ELSE Returns(Pending)]

RECURSIVE processResults(_, _, _, _)
\* the loop `for (const result of batchResults)` from index k to index last,
\* on the locals acc
processResults(acc, batchResults, k, last) ==
    IF k > last THEN acc
    ELSE processResults(
             IF ~batchResults[k].thrown /\ Truthy(batchResults[k].value)
             THEN [acc EXCEPT !.embeddings = store(@, k, batchResults[k].value),
                              !.successCount = @ + 1]
             ELSE [acc EXCEPT !.errors = store(@, k, batchResults[k].error.message),
                              !.failureCount = @ + 1],
             batchResults, k + 1, last)

\* the largest index of the batch that starts at i
LastIndex(texts, batchSize, i) ==
    IF i + batchSize < Len(texts) THEN i + batchSize - 1 ELSE Len(texts) - 1

\* embedBatch({ texts, batchSize, delayMs }) up to its first await
EmbedBatch(texts, batchSize, delayMs) ==
    /\ task = Idle
    /\ IF Len(texts) = 0
       THEN /\ result' = Throws(EmbedderValidationError(<<"Texts array cannot be empty">>))
            /\ calls' = <<>>
            /\ task' = Idle
       ELSE /\ result' = Returns(Pending)
            /\ calls' = slice(texts, 0, batchSize)
            /\ task' = [pc |-> "batch", texts |-> texts, batchSize |-> batchSize,
                        delayMs |-> delayMs, i |-> 0,
                        batchPromises |-> batchPromises(texts, batchSize, 0),
                        embeddings |-> NoEntries, errors |-> NoEntries,
                        successCount |-> 0, failureCount |-> 0]
    /\ UNCHANGED <<conditions, logicalOperator>>

\* the embed of the text at index k settles
EmbedSettles(k, outcome) ==
    /\ task.pc = "batch"
    /\ k \in DOMAIN task.batchPromises
    /\ task.batchPromises[k] = Returns(Pending)
    /\ outcome \in EmbedOutcomes(task.texts[k + 1])
    /\ task' = [task EXCEPT !.batchPromises[k] = outcome]
    /\ UNCHANGED <<conditions, logicalOperator, result, calls>>

\* Promise.all(batchPromises) resolves: the results are taken in, then comes the
\* delay, the next batch or the return
BatchCompletes ==
    /\ task.pc = "batch"
    /\ \A k \in DOMAIN task.batchPromises : task.batchPromises[k] # Returns(Pending)
    /\ LET acc == processResults(task, task.batchPromises, task.i,
                                 LastIndex(task.texts, task.batchSize, task.i))
       IN IF task.i + task.batchSize < Len(task.texts) /\ task.delayMs > 0
          THEN /\ task' = [acc EXCEPT !.pc = "delay", !.batchPromises = NoEntries]
               /\ UNCHANGED <<result, calls>>
          ELSE IF task.i + task.batchSize < Len(task.texts)
          THEN /\ task' = [acc EXCEPT
                              !.i = task.i + task.batchSize,
                              !.batchPromises = batchPromises(task.texts, task.batchSize,
                                                              task.i + task.batchSize)]
               /\ calls' = calls \o slice(task.texts, task.i + task.batchSize,
                                          task.i + task.batchSize + task.batchSize)
               /\ UNCHANGED result
          ELSE /\ result' = Returns([embeddings |-> acc.embeddings,
                                     successCount |-> acc.successCount,
                                     failureCount |-> acc.failureCount,
                                     errors |-> acc.errors])
               /\ task' = Idle
               /\ UNCHANGED calls
    /\ UNCHANGED <<conditions, logicalOperator>>

\* the timer of the delay between two batches fires: i += batchSize, next batch
BatchDelayElapses ==
    /\ task.pc = "delay"
    /\ task' = [task EXCEPT
                   !.pc = "batch",
                   !.i = task.i + task.batchSize,
                   !.batchPromises = batchPromises(task.texts, task.batchSize,
                                                   task.i + task.batchSize)]
    /\ calls' = calls \o slice(task.texts, task.i + task.batchSize,
                               task.i + task.batchSize + task.batchSize)
    /\ UNCHANGED <<conditions, logicalOperator, result>>

NextEmbedBatch ==
    \/ \E texts \in TextLists, batchSize \in 1..MaxBatchSize, delayMs \in {0, 100} :
          EmbedBatch(texts, batchSize, delayMs)
    \/ \E k \in 0..(MaxTexts - 1) :
          \E outcome \in EmbedOutcomes(S("hello")) \cup EmbedOutcomes(S("world")) :
             EmbedSettles(k, outcome)
    \/ BatchCompletes
    \/ BatchDelayElapses

SpecEmbedBatch == Init /\ [][NextEmbedBatch]_vars

\* ---- what a caller sees ------------------------------------------------------

RECURSIVE Deep(_, _, _)
\* filter f read through heap h, n levels deep: a composite's child list is the
\* array it refers to as that array is in h
Deep(f, h, n) ==
    IF ~IsComposite(f) THEN f
    ELSE IF n = 0 THEN Composite(WrapperKey(f), Items(<<>>))
    ELSE LET kids == Elems(Children(f), h)
         IN Composite(WrapperKey(f),
                      Items([i \in 1..Len(kids) |-> Deep(kids[i], h, n - 1)]))

\* the value the last call returned is a filter (build() returned it)
ReturnedFilter ==
    /\ ~result.thrown
    /\ result.value # Undefined
    /\ result.value # Null
    /\ "builder" \notin DOMAIN result.value

\* ---- QdrantClient: search, countPoints, deletePointsByFilter --------------------
\* (src/src/client/client.ts)

QdrantConnectionError(message) == [name |-> "QdrantConnectionError", message |-> message]

\* JSON.stringify(body) of a request body with the own properties keys, in
\* that order: no indentation
stringifyBody(body, keys, h) ==
    IF Circular(body, h, {})
    THEN Throws(TypeError(<<"Converting circular structure to JSON">>))
    ELSE LET present == SelectSeq(keys, LAMBDA k : k \in DOMAIN body /\ body[k] # Undefined)
             member(k) ==
                 <<Str(k), P(":")>>
                 \o SelectSeq(SerializeJSONProperty(body[k], h, 0),
                              LAMBDA tk : "ws" \notin DOMAIN tk)
         IN Returns(JsonText(
                IF present = <<>> THEN <<P("{"), P("}")>>
                ELSE <<P("{")>>
                     \o JoinComma([i \in 1..Len(present) |-> member(present[i])])
                     \o <<P("}")>>))

\* executeRequest(endpoint, { method, body }) up to `await fetch(...)`
executeRequest(operation, endpoint, method, body, keys) ==
    LET text == stringifyBody(body, keys, conditions)
    IN IF text.thrown
       THEN /\ result' = Throws(text.error)
            /\ calls' = <<>>
            /\ task' = Idle
       ELSE /\ result' = Returns(Pending)
            /\ calls' = <<[endpoint |-> endpoint, method |-> method, body |-> text.value]>>
            /\ task' = [pc |-> "fetch", operation |-> operation]

\* a client method throws before it sends anything
Reject(err) ==
    /\ result' = Throws(err)
    /\ calls' = <<>>
    /\ task' = Idle

\* search(collectionName, query)
Search(collectionName, query) ==
    /\ task = Idle
    /\ IF ~Truthy(collectionName)
       THEN Reject(QdrantValidationError(<<"Collection name is required">>))
       ELSE IF ~IsArray(query.vector) \/ Len(query.vector.items) = 0
       THEN Reject(QdrantValidationError(
                <<"Query vector is required and must be a non-empty array">>))
       ELSE executeRequest("search",
                <<"/collections/", collectionName.v, "/points/search">>, "POST",
                [vector |-> query.vector,
                 limit |-> IF Truthy(Get(query, "topK")) THEN query.topK ELSE N(10),
                 filter |-> IF Truthy(Get(query, "filter")) THEN query.filter
                            ELSE Undefined,
                 with_vector |-> B(FALSE),
                 with_payload |-> B(TRUE)],
                <<"vector", "limit", "filter", "with_vector", "with_payload">>)
    /\ UNCHANGED <<conditions, logicalOperator>>

\* countPoints(collectionName, params?)
CountPoints(collectionName, params) ==
    /\ task = Idle
    /\ IF ~Truthy(collectionName)
       THEN Reject(QdrantValidationError(<<"Collection name is required">>))
       ELSE executeRequest("countPoints",
                <<"/collections/", collectionName.v, "/points/count">>, "POST",
                IF Truthy(params) THEN params ELSE EmptyObject,
                <<"filter", "exact">>)
    /\ UNCHANGED <<conditions, logicalOperator>>

\* deletePointsByFilter(collectionName, filter)
DeletePointsByFilter(collectionName, filter) ==
    /\ task = Idle
    /\ IF ~Truthy(collectionName)
       THEN Reject(QdrantValidationError(<<"Collection name is required">>))
       ELSE IF ~Truthy(filter)
       THEN Reject(QdrantValidationError(<<"Filter is required">>))
       ELSE executeRequest("deletePointsByFilter",
                <<"/collections/", collectionName.v, "/points/delete">>, "POST",
                [filter |-> filter], <<"filter">>)
    /\ UNCHANGED <<conditions, logicalOperator>>

\* what fetch resolves to, as executeRequest hands it on, or what it rejects with
FetchOutcomes ==
    {Returns([result |-> Items(<<>>)]),
     Throws(QdrantConnectionError(<<"Failed to connect to Qdrant">>))}

\* the promise of fetch settles and the client method runs to its end
FetchSettles(outcome) ==
    /\ task.pc = "fetch"
    /\ outcome \in FetchOutcomes
    /\ result' = IF outcome.thrown THEN outcome
                 ELSE IF task.operation = "deletePointsByFilter"
                 THEN Returns(outcome.value)
                 ELSE Returns(outcome.value.result)
    /\ task' = Idle
    /\ UNCHANGED <<conditions, logicalOperator, calls>>

\* the filter values a caller passes to the client: the filter build() gave it,
\* filters it wrote itself, null, or none
ClientFilters ==
    (IF ReturnedFilter THEN {result.value} ELSE {})
    \cup {createEqualityFilter(S("category"), S("research")),
          [range |-> [key |-> S("a"), gte |-> N(0), lte |-> N(10)]],
          [must_not |-> Items(<<createEqualityFilter(S("a"), B(FALSE))>>)],
          Null, Undefined}

CollectionNames == {S("test-collection"), S("")}

SearchQueries ==
    {[vector |-> v, topK |-> k, filter |-> f] :
        v \in {Items(<<N(1), N(2)>>), Items(<<>>)}, k \in {Undefined, N(5)},
        f \in ClientFilters}

CountParamsInputs ==
    {Undefined, EmptyObject}
    \cup {[filter |-> f] : f \in ClientFilters}
    \cup {[filter |-> f, exact |-> B(TRUE)] : f \in ClientFilters}

NextClient ==
    \/ task = Idle /\ \E a \in EqualsArgs : Equals("b1", a[1], a[2])
    \/ task = Idle /\ \E bs \in BuilderLists : AndAll("b1", bs)
    \/ task = Idle /\ Build("b1")
    \/ \E collectionName \in CollectionNames, query \in SearchQueries :
          Search(collectionName, query)
    \/ \E collectionName \in CollectionNames, params \in CountParamsInputs :
          CountPoints(collectionName, params)
    \/ \E collectionName \in CollectionNames, filter \in ClientFilters :
          DeletePointsByFilter(collectionName, filter)
    \/ \E outcome \in FetchOutcomes : FetchSettles(outcome)

SpecClient == Init /\ [][NextClient]_vars

\* ---- claims ------------------------------------------------------------------

C2_ReturnedFilterNeverChanges ==
    [][ReturnedFilter =>
         Deep(result.value, conditions', MaxConds) = Deep(result.value, conditions, MaxConds)
      ]_vars

\* C3: build() returns null exactly when the builder holds no condition, and the
\* condition itself when it holds exactly one, whatever the mode.
C3_BuildNullOrUnwrapped ==
    [][\A b \in Builders : Build(b) =>
          /\ ~result'.thrown
          /\ (result'.value = Null) <=> (Len(conditions[b]) = 0)
          /\ Len(conditions[b]) = 1 => result'.value = conditions[b][1]
      ]_vars

\* C3 witness: build() has returned the single condition of a builder in OR or NOT mode
C3_Witness ==
    \E b \in Builders :
        /\ Len(conditions[b]) = 1
        /\ logicalOperator[b] # "must"
        /\ ReturnedFilter
        /\ result.value = conditions[b][1]

\* C4: build() changes neither conditions nor the mode, and a second build() right
\* after it returns the same filter, reading the same.
C4_BuildNonDestructive ==
    [][\A b \in Builders : Build(b) =>
          /\ conditions' = conditions
          /\ logicalOperator' = logicalOperator
          /\ build(conditions', logicalOperator'[b], b) = result'.value
          /\ Deep(build(conditions', logicalOperator'[b], b), conditions', MaxConds)
               = Deep(result'.value, conditions, MaxConds)
      ]_vars

\* C4 witness: a builder extended after a build(), built again: the composite
\* returned lists all three conditions
C4_Witness ==
    \E b \in Builders :
        /\ Len(conditions[b]) = 3
        /\ ReturnedFilter
        /\ IsComposite(result.value)
        /\ Children(result.value) = ArrayOf(b)

\* C5: inRange(min, max) with min > max throws a validation error and leaves
\* conditions and the mode as they were; with min <= max it appends exactly the
\* condition Range{key, gte: min, lte: max} and returns the builder.
C5_InRangeEager ==
    [][\A b \in Builders, a \in InRangeArgs : InRange(b, a[1], a[2], a[3]) =>
          IF a[2] > a[3]
          THEN /\ result'.thrown
               /\ result'.error.name = "FilterValidationError"
               /\ conditions' = conditions
               /\ logicalOperator' = logicalOperator
          ELSE /\ result' = Returns(This(b))
               /\ conditions' =
                     [conditions EXCEPT ![b] =
                        Append(@, [range |-> [key |-> S(a[1]), gte |-> N(a[2]),
                                              lte |-> N(a[3])]])]
               /\ logicalOperator' = logicalOperator
      ]_vars

\* C5 witness: inRange has thrown on a builder that already holds the condition of
\* an inRange call with min = max
C5_Witness ==
    /\ result.thrown
    /\ result.error.message = <<"Range minimum cannot be greater than maximum">>
    /\ \E i \in 1..Len(conditions["b1"]) :
          conditions["b1"][i] = [range |-> [key |-> S(""), gte |-> N(2), lte |-> N(2)]]

\* a geo_radius condition with a radius that is not positive
BadRadius(c) ==
    "geo_radius" \in DOMAIN c /\ Le(c.geo_radius.radius, N(0))

\* C6: withinRadius(center, r) with r <= 0 throws a validation error and leaves
\* conditions as they were, so no builder ever holds, and no build() ever
\* returns, the condition of a failed call.
C6_WithinRadiusEager ==
    /\ [](\A b \in Builders : \A i \in 1..Len(conditions[b]) :
             ~BadRadius(conditions[b][i]))
    /\ [](ReturnedFilter => ~BadRadius(result.value))
    /\ [][\A b \in Builders, a \in WithinRadiusArgs :
            (WithinRadius(b, a[1], a[2], a[3]) /\ a[3] <= 0) =>
               /\ result'.thrown
               /\ result'.error.name = "FilterValidationError"
               /\ conditions' = conditions
               /\ logicalOperator' = logicalOperator
         ]_vars

\* C6 witness: withinRadius has thrown on a builder that holds conditions
C6_Witness ==
    /\ result.thrown
    /\ result.error.message = <<"Radius must be positive">>
    /\ Len(conditions["b1"]) >= 2

\* C7: a call throws only if it is validate(), inRange with min > max or
\* withinRadius with radius <= 0; build() never throws, and on the one condition
\* of where('').equals(v) it returns Match{key: '', value: v}.
C7_ValidationOptIn ==
    [][/\ result'.thrown =>
            \/ \E b \in Builders : Validate(b)
            \/ \E b \in Builders, a \in InRangeArgs :
                  a[2] > a[3] /\ InRange(b, a[1], a[2], a[3])
            \/ \E b \in Builders, a \in WithinRadiusArgs :
                  a[3] <= 0 /\ WithinRadius(b, a[1], a[2], a[3])
        /\ \A b \in Builders : Build(b) =>
              /\ ~result'.thrown
              /\ \A v \in {N(1)} :
                    conditions[b] = <<[match |-> [key |-> S(""), value |-> v]]>>
                       => result'.value = [match |-> [key |-> S(""), value |-> v]]
      ]_vars

\* C7 witness: build() has returned a Match with an empty key
C7_Witness ==
    /\ ReturnedFilter
    /\ result.value = [match |-> [key |-> S(""), value |-> N(1)]]

\* the entries of conds the validator rejects
Rejected(conds) ==
    {i \in 1..Len(conds) : validateFilterCondition(conds[i]) # NoError}

\* C8: validate() throws on an empty builder; otherwise it throws the error of the
\* first entry the validator rejects, and returns normally exactly when there is
\* none; it changes neither conditions nor the mode.
C8_ValidateFailFast ==
    [][\A b \in Builders : Validate(b) =>
          /\ conditions' = conditions
          /\ logicalOperator' = logicalOperator
          /\ Len(conditions[b]) = 0 =>
                /\ result'.thrown
                /\ result'.error.name = "FilterValidationError"
                /\ result'.error.message = <<"Filter must have at least one condition">>
          /\ Len(conditions[b]) > 0 =>
                /\ result'.thrown <=> Rejected(conditions[b]) # {}
                /\ ~result'.thrown => result' = Returns(Undefined)
                /\ \A i \in Rejected(conditions[b]) :
                      (\A j \in Rejected(conditions[b]) : i <= j) =>
                         result'.error = validateFilterCondition(conditions[b][i])
      ]_vars

\* C8 witness: validate() has thrown the error of a rejected Range that stands
\* before a rejected Match
C8_Witness ==
    /\ Len(conditions["b1"]) >= 2
    /\ "range" \in DOMAIN conditions["b1"][1]
    /\ "match" \in DOMAIN conditions["b1"][2]
    /\ Rejected(conditions["b1"]) = {1, 2}
    /\ result.thrown
    /\ result.error.message = <<"Range filter must have a valid key">>

RECURSIVE WrapsRejected(_, _, _)
\* composite f holds, at most n levels down, a leaf the validator rejects
WrapsRejected(f, h, n) ==
    /\ IsComposite(f)
    /\ n > 0
    /\ \E i \in 1..Len(Elems(Children(f), h)) :
          LET kid == Elems(Children(f), h)[i]
          IN IF IsComposite(kid) THEN WrapsRejected(kid, h, n - 1)
             ELSE validateFilterCondition(kid) # NoError

\* C9: the validator accepts every composite entry without looking at its
\* children, so validate() returns normally on a non-empty builder whose entries
\* are composites, whatever they wrap, or leaves the validator accepts.
C9_ValidationShallow ==
    /\ [](\A b \in Builders : \A i \in 1..Len(conditions[b]) :
             IsComposite(conditions[b][i]) =>
                validateFilterCondition(conditions[b][i]) = NoError)
    /\ [][\A b \in Builders :
            ( /\ Validate(b)
              /\ Len(conditions[b]) > 0
              /\ \A i \in 1..Len(conditions[b]) :
                    \/ IsComposite(conditions[b][i])
                    \/ LeafChecks(conditions[b][i]) = NoError )
            => result' = Returns(Undefined)
         ]_vars

\* C9 witness: validate() has returned normally on a builder whose entries are an
\* andAll composite over a Match with an empty key and a second composite
C9_Witness ==
    /\ result = Returns(Undefined)
    /\ Len(conditions["b1"]) = 1
    /\ DOMAIN conditions["b1"][1] \subseteq Operators
    /\ IsRef(Children(conditions["b1"][1]))
    /\ WrapsRejected(conditions["b1"][1], conditions, MaxConds)
    /\ \E i \in 1..Len(conditions["b2"]) :
          /\ ~IsComposite(conditions["b2"][i])
          /\ LeafChecks(conditions["b2"][i]) # NoError

\* what build() of builder x gives in heap h when x holds a condition
SubFilter(h, x) ==
    IF Len(h[x]) = 1 THEN h[x][1]
    ELSE Composite(logicalOperator[x], ArrayOf(x))

RECURSIVE SubFilters(_, _, _)
\* one SubFilter per builder of bs that holds a condition when its turn comes, in
\* the order of bs; parent b holds each entry as soon as it is appended
SubFilters(h, b, bs) ==
    IF bs = <<>> THEN <<>>
    ELSE IF Len(h[Head(bs)]) = 0 THEN SubFilters(h, b, Tail(bs))
    ELSE <<SubFilter(h, Head(bs))>>
         \o SubFilters([h EXCEPT ![b] = Append(@, SubFilter(h, Head(bs)))], b, Tail(bs))

\* the builders of bs that hold a condition
NonEmpty(bs) == SelectSeq(bs, LAMBDA x : Len(conditions[x]) > 0)

C11_OrAnyAppendsOneOr ==
    [][\A b \in Builders :
          result' = Returns(This(b)) => \A bs \in BuilderLists : OrAny(b, bs) =>
          /\ logicalOperator' = logicalOperator
          /\ \A c \in Builders \ {b} : conditions'[c] = conditions[c]
          /\ IF NonEmpty(bs) = <<>>
             THEN conditions'[b] = conditions[b]
             ELSE conditions'[b] =
                     Append(conditions[b],
                            [should |-> Items([i \in 1..Len(NonEmpty(bs)) |->
                                                 SubFilter(conditions, NonEmpty(bs)[i])])])
      ]_vars

\* C11 witness: a parent holds an Or with a single child, the one condition of
\* the other builder, next to an Or with two children
C11_Witness ==
    /\ Len(conditions["b2"]) = 1
    /\ \E i, j \in 1..Len(conditions["b1"]) :
          /\ conditions["b1"][i] = [should |-> Items(<<conditions["b2"][1]>>)]
          /\ DOMAIN conditions["b1"][j] = {"should"}
          /\ ~IsRef(conditions["b1"][j].should)
          /\ Len(conditions["b1"][j].should.items) = 2

\* the outcome the claim gives combineFiltersAnd / combineFiltersOr on the list fs,
\* op being the wrapper key of the function
CombinedAsClaimed(fs, op) ==
    /\ Len(fs) = 0 =>
          /\ result'.thrown
          /\ result'.error.name = "FilterValidationError"
    /\ Len(fs) = 1 => result' = Returns(fs[1])
    /\ Len(fs) >= 2 =>
          /\ ~result'.thrown
          /\ DOMAIN result'.value = {op}
          /\ Elems(result'.value[op], conditions') = fs

\* C12: combineFiltersAnd and combineFiltersOr throw a validation error on an
\* empty list, return the element itself for a list of one, and for two or more
\* return a composite whose only key is must / should and whose children are the
\* elements of the list in the order of the list.
C12_CombineFilters ==
    [][\A filters \in FilterLists :
          /\ CombineFiltersAnd(filters) => CombinedAsClaimed(filters.items, "must")
          /\ CombineFiltersOr(filters) => CombinedAsClaimed(filters.items, "should")
      ]_vars

\* C12 witness: an And of two different filters, the first an Or of two filters
C12_Witness ==
    /\ ~result.thrown
    /\ DOMAIN result.value = {"must"}
    /\ Len(result.value.must.items) = 2
    /\ result.value.must.items[1] # result.value.must.items[2]
    /\ DOMAIN result.value.must.items[1] = {"should"}
    /\ Len(result.value.must.items[1].should.items) = 2

\* C13: isEmptyFilter returns true for null, for undefined and for a composite
\* with no child, and false for every leaf condition and every composite with a
\* child, whatever the child is.
C13_IsEmptyFilter ==
    [][\A f \in Filters \cup EmptyComposites \cup {Null, Undefined} :
          IsEmptyFilter(f) =>
             result' = Returns(B(\/ f \in {Null, Undefined}
                                 \/ /\ IsComposite(f)
                                    /\ Len(Elems(Children(f), conditions)) = 0))
      ]_vars

\* C13 witness: isEmptyFilter has returned true
C13_Witness == result = Returns(B(TRUE))

\* C14 as claimed: serializeFilter(f) does not throw and JSON.parse of its text is
\* deep-equal to f, for every filter f the functions make
C14_SerializeRoundTrip ==
    [][\A f \in Filters : SerializeFilter(f) =>
          /\ ~result'.thrown
          /\ JSONparse(result'.value) = Deep(f, conditions, MaxDepth)
      ]_vars

\* a finite number, a non-empty string
FiniteNumber(x) == IsPrimitive(x) /\ x.t = "number" /\ "v" \in DOMAIN x
NonEmptyString(x) == IsPrimitive(x) /\ x.t = "string" /\ x.v # ""

\* a point with a finite latitude in [-90, 90] and a finite longitude in [-180, 180]
GeoPointAsClaimed(point) ==
    /\ IsObject(point)
    /\ FiniteNumber(Get(point, "lat"))
    /\ point.lat.v \in -90..90
    /\ FiniteNumber(Get(point, "lon"))
    /\ point.lon.v \in -180..180

IsGeo(c) ==
    IsObject(c) /\ ("geo_radius" \in DOMAIN c \/ "geo_bounding_box" \in DOMAIN c)

\* the geographic conditions the claim has accepted
GeoAsClaimed(c) ==
    IF "geo_radius" \in DOMAIN c
    THEN /\ NonEmptyString(Get(c.geo_radius, "key"))
         /\ GeoPointAsClaimed(Get(c.geo_radius, "center"))
         /\ FiniteNumber(Get(c.geo_radius, "radius"))
         /\ c.geo_radius.radius.v > 0
    ELSE /\ NonEmptyString(Get(c.geo_bounding_box, "key"))
         /\ GeoPointAsClaimed(c.geo_bounding_box.bounding_box.top_left)
         /\ GeoPointAsClaimed(c.geo_bounding_box.bounding_box.bottom_right)

\* the validator has accepted the condition / has thrown a validation error
Accepted == result' = Returns(Undefined)
RaisedValidationError ==
    result'.thrown /\ result'.error.name = "FilterValidationError"

\* C15 as claimed: validateFilterCondition accepts a geographic condition exactly
\* when its key is a non-empty string, its points are finite and in range and, for
\* a GeoRadius, the radius is a positive finite number; it throws a validation
\* error on every other one
C15_GeoValidation ==
    [][\A c \in HeldValue : (IsGeo(c) /\ ValidateFilterCondition(c)) =>
          IF GeoAsClaimed(c) THEN Accepted ELSE RaisedValidationError
      ]_vars

IsRange(c) == IsObject(c) /\ "range" \in DOMAIN c

\* the bounds of range r that are defined
DefinedBounds(r) == {Get(r, k) : k \in {"gte", "lte", "gt", "lt"}} \ {Undefined}

\* C16: validateFilterCondition accepts a Range condition exactly when its key is
\* a non-empty string, it has a defined bound and every defined bound is a finite
\* number; on every other Range it throws a validation error.
C16_RangeValidation ==
    [][\A c \in HeldValue : (IsRange(c) /\ ValidateFilterCondition(c)) =>
          IF /\ NonEmptyString(Get(c.range, "key"))
             /\ DefinedBounds(c.range) # {}
             /\ \A v \in DefinedBounds(c.range) : FiniteNumber(v)
          THEN Accepted
          ELSE RaisedValidationError
      ]_vars

\* C16 witness: the validator has thrown on a Range with a bound that is no
\* finite number
C16_Witness ==
    /\ result.thrown
    /\ result.error.message = <<"Range filter values must be finite numbers">>

IsMatch(c) == IsObject(c) /\ "match" \in DOMAIN c

\* C17: validateFilterCondition accepts a Match condition exactly when its key is
\* a non-empty string and its value is neither null nor undefined (0, false and ''
\* are values); on every other Match, and on null or a value that is no object,
\* it throws a validation error.
C17_MatchValidation ==
    [][\A c \in HeldValue : ValidateFilterCondition(c) =>
          /\ IsMatch(c) =>
                IF /\ NonEmptyString(Get(c.match, "key"))
                   /\ Get(c.match, "value") \notin {Null, Undefined}
                THEN Accepted
                ELSE RaisedValidationError
          /\ IsPrimitive(c) => RaisedValidationError
      ]_vars

\* C17 witness: the validator has thrown on a Match with a key and no value
C17_Witness ==
    /\ result.thrown
    /\ result.error.message = <<"Match filter must have a value">>
    /\ result.error.field = S("a")

\* C18: createRangeFilter(field, min, max) throws a validation error exactly when
\* min and max are both omitted; otherwise it returns a Range on field that has
\* gte, equal to min, iff min was given, lte, equal to max, iff max was given,
\* and no other bound.
C18_CreateRangeFilter ==
    [][\A a \in RangeFilterArgs : CreateRangeFilter(a[1], a[2], a[3]) =>
          IF a[2] = Undefined /\ a[3] = Undefined
          THEN /\ result'.thrown
               /\ result'.error.name = "FilterValidationError"
          ELSE /\ ~result'.thrown
               /\ DOMAIN result'.value = {"range"}
               /\ LET range == result'.value.range
                  IN /\ range.key = a[1]
                     /\ "gte" \in DOMAIN range <=> a[2] # Undefined
                     /\ "gte" \in DOMAIN range => range.gte = a[2]
                     /\ "lte" \in DOMAIN range <=> a[3] # Undefined
                     /\ "lte" \in DOMAIN range => range.lte = a[3]
                     /\ DOMAIN range \subseteq {"key", "gte", "lte"}
      ]_vars

\* C18 witness: createRangeFilter has returned a Range with an upper bound only
C18_Witness ==
    /\ ~result.thrown
    /\ result.value = [range |-> [key |-> S("a"), lte |-> N(2)]]

\* C19: negateFilter(f) returns a composite whose only key is must_not and whose
\* child list is a new list of one element, f itself; it does so for a Not too,
\* so negating twice gives a Not around a Not around f.
C19_NegateFilter ==
    [][\A f \in Filters : NegateFilter(f) =>
          /\ ~result'.thrown
          /\ DOMAIN result'.value = {"must_not"}
          /\ ~IsRef(result'.value.must_not)
          /\ result'.value.must_not.items = <<f>>
          /\ \A g \in Filters : f = [must_not |-> Items(<<g>>)] =>
                /\ result'.value # g
                /\ result'.value = [must_not |-> Items(<<[must_not |-> Items(<<g>>)]>>)]
      ]_vars

\* C19 witness: negateFilter has returned a Not whose one child is a Not
C19_Witness ==
    /\ ~result.thrown
    /\ DOMAIN result.value = {"must_not"}
    /\ Len(result.value.must_not.items) = 1
    /\ DOMAIN result.value.must_not.items[1] = {"must_not"}
    /\ Len(result.value.must_not.items[1].must_not.items) = 1

\* the effect the claim gives a mode switch of builder b to operator op
SwitchedAsClaimed(b, op) ==
    /\ logicalOperator' = [logicalOperator EXCEPT ![b] = op]
    /\ conditions' = conditions
    /\ result' = Returns(This(b))
    /\ ReturnedFilter =>
          Deep(result.value, conditions', MaxConds) = Deep(result.value, conditions, MaxConds)

\* C20: a new builder is in mode must; and(), or() and not() set the mode of
\* their builder to must, should and must_not whatever it was, change no
\* conditions list and no other builder's mode, and a filter a build() returned
\* just before reads the same after the switch, wrapper keys included.
C20_ModeSwitchesArePure ==
    /\ \A b \in Builders : logicalOperator[b] = "must" /\ conditions[b] = <<>>
    /\ [][\A b \in Builders :
            /\ And(b) => SwitchedAsClaimed(b, "must")
            /\ Or(b) => SwitchedAsClaimed(b, "should")
            /\ Not(b) => SwitchedAsClaimed(b, "must_not")
         ]_vars

\* C20 witness: a builder switched to NOT still holds the OR composite an earlier
\* build() of it gave
C20_Witness ==
    /\ logicalOperator["b1"] = "must_not"
    /\ result = Returns(This("b1"))
    /\ \E i \in 1..Len(conditions["b1"]) : conditions["b1"][i] = [should |-> ArrayOf("b1")]

\* the call has returned builder b after appending the one entry c at the end of
\* its conditions, with the earlier entries, the mode and the other builders as
\* they were
AppendedOne(b, c) ==
    /\ result' = Returns(This(b))
    /\ conditions'[b] = Append(conditions[b], c)
    /\ Len(conditions'[b]) = Len(conditions[b]) + 1
    /\ \A i \in 1..Len(conditions[b]) : conditions'[b][i] = conditions[b][i]
    /\ \A x \in Builders \ {b} : conditions'[x] = conditions[x]
    /\ logicalOperator' = logicalOperator

Match(f, value) == [match |-> [key |-> S(f), value |-> value]]

\* C21: every terminal method of where(field) that does not throw returns the
\* owning builder after appending exactly one entry, its condition, at the end of
\* that builder's conditions, and leaves the earlier entries and the mode alone;
\* the entry of notEquals is a Not over a list of the one Match.
C21_TerminalAppendsOne ==
    [][\A b \in Builders :
          ~result'.thrown =>
          /\ \A a \in TextArgs :
                /\ Equals(b, a[1], a[2]) => AppendedOne(b, Match(a[1], a[2]))
                /\ Matches(b, a[1], a[2]) => AppendedOne(b, Match(a[1], a[2]))
                /\ Contains(b, a[1], a[2]) => AppendedOne(b, Match(a[1], a[2]))
          /\ \A a \in NotEqualsArgs :
                NotEquals(b, a[1], a[2]) =>
                   AppendedOne(b, [must_not |-> Items(<<Match(a[1], a[2])>>)])
          /\ \A a \in CompareArgs :
                /\ GreaterThan(b, a[1], a[2]) =>
                      AppendedOne(b, [range |-> [key |-> S(a[1]), gt |-> a[2]]])
                /\ GreaterThanOrEqual(b, a[1], a[2]) =>
                      AppendedOne(b, [range |-> [key |-> S(a[1]), gte |-> a[2]]])
                /\ LessThan(b, a[1], a[2]) =>
                      AppendedOne(b, [range |-> [key |-> S(a[1]), lt |-> a[2]]])
                /\ LessThanOrEqual(b, a[1], a[2]) =>
                      AppendedOne(b, [range |-> [key |-> S(a[1]), lte |-> a[2]]])
          /\ \A a \in InRangeArgs :
                InRange(b, a[1], a[2], a[3]) =>
                   AppendedOne(b, [range |-> [key |-> S(a[1]), gte |-> N(a[2]),
                                              lte |-> N(a[3])]])
          /\ \A a \in InBoundingBoxArgs :
                InBoundingBox(b, a[1], a[2], a[3]) =>
                   AppendedOne(b, [geo_bounding_box |->
                                     [key |-> S(a[1]),
                                      bounding_box |-> [top_left |-> a[2],
                                                        bottom_right |-> a[3]]]])
          /\ \A a \in WithinRadiusArgs :
                WithinRadius(b, a[1], a[2], a[3]) =>
                   AppendedOne(b, [geo_radius |-> [key |-> S(a[1]), center |-> a[2],
                                                   radius |-> N(a[3])]])
      ]_vars

\* C21 witness: a builder in OR mode whose last call was a terminal method holds a
\* Not over one Match as its last entry, after two other entries
C21_Witness ==
    /\ result = Returns(This("b1"))
    /\ logicalOperator["b1"] = "should"
    /\ Len(conditions["b1"]) = 3
    /\ "range" \in DOMAIN conditions["b1"][1]
    /\ "geo_bounding_box" \in DOMAIN conditions["b1"][2]
    /\ conditions["b1"][3] = [must_not |-> Items(<<Match("", N(1))>>)]

\* the GeoBoundingBox condition of inBoundingBox(topLeft, bottomRight) on field f
Box(f, topLeft, bottomRight) ==
    [geo_bounding_box |->
        [key |-> S(f),
         bounding_box |-> [top_left |-> topLeft, bottom_right |-> bottomRight]]]

\* a point with a latitude outside [-90, 90] or a longitude outside [-180, 180]
OutOfRange(point) ==
    point.lat.v \notin -90..90 \/ point.lon.v \notin -180..180

\* a GeoBoundingBox condition with a corner out of range
OutOfRangeBox(c) ==
    /\ "geo_bounding_box" \in DOMAIN c
    /\ \/ OutOfRange(c.geo_bounding_box.bounding_box.top_left)
       \/ OutOfRange(c.geo_bounding_box.bounding_box.bottom_right)

\* C24: inBoundingBox never throws, whatever the corners: it appends exactly one
\* GeoBoundingBox condition with the corners as given and returns the builder.  A
\* condition with a corner out of range is rejected by validateFilterCondition,
\* so validate() throws on a builder that holds one, and throws the error of
\* that corner when the condition is the first entry.
C24_InBoundingBoxNotEager ==
    /\ [][\A b \in Builders, a \in InBoundingBoxArgs :
            InBoundingBox(b, a[1], a[2], a[3]) =>
               /\ ~result'.thrown
               /\ AppendedOne(b, Box(a[1], a[2], a[3]))
         ]_vars
    /\ [](\A b \in Builders : \A i \in 1..Len(conditions[b]) :
             OutOfRangeBox(conditions[b][i]) =>
                validateFilterCondition(conditions[b][i]).name = "FilterValidationError")
    /\ [][\A b \in Builders :
            (Validate(b) /\ \E i \in 1..Len(conditions[b]) :
                                OutOfRangeBox(conditions[b][i]))
            => /\ result'.thrown
               /\ result'.error.name = "FilterValidationError"
               /\ OutOfRangeBox(conditions[b][1]) =>
                     /\ result'.error.message[1] = "Geographic point"
                     /\ result'.error.message[3] \in
                           {"latitude must be between -90 and 90",
                            "longitude must be between -180 and 180"}
         ]_vars

\* C24 witness: validate() has thrown on the longitude of the bottom right corner
\* of a GeoBoundingBox condition the builder holds
C24_Witness ==
    /\ result.thrown
    /\ result.error.message =
          <<"Geographic point", "bottom_right", "longitude must be between -180 and 180">>
    /\ \E i \in 1..Len(conditions["b1"]) : OutOfRangeBox(conditions["b1"][i])

\* C22: no call drops, duplicates or reorders an entry: after every call each
\* builder's conditions begin with what they were before it, a terminal method
\* puts its one condition last, and the composite build() returns has the
\* builder's conditions as its child list, entry by entry in their order.
C22_InsertionOrder ==
    [][\A b \in Builders :
          /\ Len(conditions'[b]) >= Len(conditions[b])
          /\ \A i \in 1..Len(conditions[b]) : conditions'[b][i] = conditions[b][i]
          /\ \A a \in EqualsArgs :
                Equals(b, a[1], a[2]) =>
                   /\ Len(conditions'[b]) = Len(conditions[b]) + 1
                   /\ conditions'[b][Len(conditions'[b])] = Match(a[1], a[2])
          /\ (Build(b) /\ Len(conditions[b]) >= 2) =>
                /\ IsComposite(result'.value)
                /\ Len(Elems(Children(result'.value), conditions')) = Len(conditions[b])
                /\ \A i \in 1..Len(conditions[b]) :
                      Elems(Children(result'.value), conditions')[i] = conditions[b][i]
      ]_vars

\* C22 witness: build() has returned a composite whose children are a Match, then
\* the Or an orAny appended, then a different Match
C22_Witness ==
    /\ ReturnedFilter
    /\ IsComposite(result.value)
    /\ Children(result.value) = ArrayOf("b1")
    /\ Len(conditions["b1"]) = 3
    /\ conditions["b1"][1] = Match("a", N(1))
    /\ DOMAIN conditions["b1"][2] = {"should"}
    /\ conditions["b1"][3] = Match("", N(1))

\* C27 as claimed: a filter build() returned is a finite tree, no composite is
\* reachable from its own child list
C27_BuildReturnsFiniteTree ==
    ReturnedFilter => ~Circular(result.value, conditions, {})

\* what build() of builder b gives, read through the heap, before and after a step
BuiltBefore(b) ==
    Deep(build(conditions, logicalOperator[b], b), conditions, MaxConds)
BuiltAfter(b) ==
    Deep(build(conditions', logicalOperator'[b], b), conditions', MaxConds)

\* C28 as claimed: andAll and orAny leave the conditions and the modes of the
\* other builders as they were, and an append or a mode switch on another
\* builder changes neither the conditions of a builder nor what its build() gives
C28_ArgumentsAreSnapshots ==
    [][\A b \in Builders :
          /\ \A bs \in BuilderLists : (AndAll(b, bs) \/ OrAny(b, bs)) =>
                \A c \in Builders \ {b} :
                   /\ conditions'[c] = conditions[c]
                   /\ logicalOperator'[c] = logicalOperator[c]
          /\ \A c \in Builders \ {b} :
                ( \/ \E a \in EqualsArgs : EqualsAfter(c, a[1], a[2])
                  \/ And(c) \/ Or(c) \/ Not(c) )
                => /\ conditions'[b] = conditions[b]
                   /\ BuiltAfter(b) = BuiltBefore(b)
      ]_vars

\* a range condition with a string key and two finite bounds, gte above lte
Inverted(c) ==
    /\ IsObject(c) /\ "range" \in DOMAIN c
    /\ ~BadKey(c.range)
    /\ DOMAIN c.range = {"key", "gte", "lte"}
    /\ TypeOf(c.range.gte) = "number" /\ isFinite(c.range.gte)
    /\ TypeOf(c.range.lte) = "number" /\ isFinite(c.range.lte)
    /\ Lt(c.range.lte, c.range.gte)

\* C29: the order of the two bounds is checked by inRange only. inRange with
\* max < min throws and appends nothing; createRangeFilter with min > max
\* returns the range with gte = min and lte = max; validateFilterCondition
\* accepts such a range; and validate() passes on a builder that got it through
\* addCondition when its other conditions are valid
C29_RangeOrderOnlyInInRange ==
    [][/\ \A a \in InRangeArgs :
             InRange("b1", a[1], a[2], a[3]) /\ a[3] < a[2]
             => result'.thrown /\ conditions' = conditions
       /\ \A a \in RangeFilterArgs :
             /\ CreateRangeFilter(a[1], a[2], a[3])
             /\ a[2] # Undefined /\ a[3] # Undefined /\ Lt(a[3], a[2])
             => /\ result' = Returns([range |-> [key |-> a[1], gte |-> a[2], lte |-> a[3]]])
                /\ Inverted(result'.value)
                /\ validateFilterCondition(result'.value) = NoError
       /\ \A c \in Held :
             AddCondition("b1", c) /\ Inverted(c)
             => conditions'["b1"] = Append(conditions["b1"], c)
       /\ ( /\ Validate("b1")
            /\ \E i \in DOMAIN conditions["b1"] : Inverted(conditions["b1"][i])
            /\ \A i \in DOMAIN conditions["b1"] :
                  \/ Inverted(conditions["b1"][i])
                  \/ validateFilterCondition(conditions["b1"][i]) = NoError )
          => result' = Returns(Undefined)
      ]_vars

\* validate() has just passed on a builder that holds an inverted range
C29_Witness ==
    /\ result = Returns(Undefined)
    /\ \E i \in DOMAIN conditions["b1"] : Inverted(conditions["b1"][i])

RECURSIVE Sent(_)
\* the records of the chunks in chunks, one chunk after another
Sent(chunks) ==
    IF chunks = <<>> THEN <<>>
    ELSE Sent(SubSeq(chunks, 1, Len(chunks) - 1)) \o chunks[Len(chunks)].records

\* C26: a call of upsertBatch sends a chunk only when every record of the input
\* is valid, and otherwise throws with no chunk sent; the chunks sent are non-empty, hold at most maxBatchSize records and
\* are, one after another, a prefix of the input; when upsertBatch returns, they
\* are the whole input; when a chunk's upsert fails the error is thrown on and no
\* further chunk is sent
C26_UpsertBatchChunks ==
    /\ [](task.pc = "upsert" =>
            /\ \A k \in 1..Len(calls) :
                  /\ calls[k].records # <<>>
                  /\ Len(calls[k].records) <= task.maxBatchSize
            /\ Len(Sent(calls)) <= Len(task.records)
            /\ Sent(calls) = SubSeq(task.records, 1, Len(Sent(calls))))
    /\ [][task = Idle =>
            /\ task' # Idle =>
                  \A k \in 1..Len(task'.records) :
                     validateVectorRecord(task'.records[k], task'.validateDimensions)
                        = NoError
            /\ task' = Idle => result'.thrown /\ calls' = <<>>
         ]_vars
    /\ [][\A outcome \in UpsertOutcomes : UpsertSettles(outcome) =>
            /\ outcome.thrown => /\ result' = Throws(outcome.error)
                                 /\ calls' = calls
                                 /\ task' = Idle
            /\ ~outcome.thrown =>
                  /\ \E k \in 0..1 : Len(calls') = Len(calls) + k
                  /\ SubSeq(calls', 1, Len(calls)) = calls
                  /\ task' = Idle <=> Sent(calls) = task.records
                  /\ task' = Idle => result' = Returns(Undefined)
         ]_vars

\* upsertBatch has returned after sending its records in two chunks or more
C26_Witness ==
    /\ task = Idle
    /\ result = Returns(Undefined)
    /\ Len(calls) >= 2
    /\ Len(calls[Len(calls)].records) < Len(calls[1].records)

\* the indices embedBatch has taken the results of
Processed ==
    IF task.pc = "batch" THEN 0..(task.i - 1)
    ELSE 0..LastIndex(task.texts, task.batchSize, task.i)

\* C30: the texts of a batch are handed to embed together, and the next batch
\* only after every embed of the batch has settled; an embed that settles, with
\* a failure or not, touches no other one; and when the results of a batch are
\* taken in, whatever order they came in, embeddings[i] is the embedding of text
\* i exactly for the texts that succeeded, errors[i] the message exactly for
\* those that failed, the two counters count them, and at the return
\* successCount + failureCount is the number of texts, all of them embedded
C30_EmbedBatch ==
    /\ [](task.pc \in {"batch", "delay"} =>
            /\ DOMAIN task.embeddings \cup DOMAIN task.errors = Processed
            /\ DOMAIN task.embeddings \cap DOMAIN task.errors = {}
            /\ task.successCount = Cardinality(DOMAIN task.embeddings)
            /\ task.failureCount = Cardinality(DOMAIN task.errors)
            /\ \A k \in DOMAIN task.embeddings :
                  task.embeddings[k] = Embedding(task.texts[k + 1])
            /\ calls = slice(task.texts, 0, task.i + task.batchSize)
            /\ task.pc = "batch" =>
                  DOMAIN task.batchPromises =
                     BatchIndices(task.texts, task.batchSize, task.i))
    /\ [][calls' # calls =>
            \/ task = Idle
            \/ \A k \in DOMAIN task.batchPromises :
                  task.batchPromises[k] # Returns(Pending)
         ]_vars
    /\ [][task.pc = "batch" =>
            \A k \in DOMAIN task.batchPromises :
               \A outcome \in EmbedOutcomes(task.texts[k + 1]) :
                  EmbedSettles(k, outcome) =>
                     /\ \A j \in DOMAIN task.batchPromises \ {k} :
                           task'.batchPromises[j] = task.batchPromises[j]
                     /\ task'.pc = "batch"
                     /\ task'.embeddings = task.embeddings
                     /\ task'.errors = task.errors
         ]_vars
    /\ [][BatchCompletes =>
            LET after == IF task' = Idle THEN result'.value ELSE task'
            IN /\ \A k \in DOMAIN task.batchPromises :
                     IF task.batchPromises[k].thrown
                     THEN /\ k \in DOMAIN after.errors
                          /\ after.errors[k] = task.batchPromises[k].error.message
                          /\ k \notin DOMAIN after.embeddings
                     ELSE /\ k \in DOMAIN after.embeddings
                          /\ after.embeddings[k] = task.batchPromises[k].value
                          /\ k \notin DOMAIN after.errors
               /\ \A k \in DOMAIN task.embeddings :
                     k \in DOMAIN after.embeddings /\ after.embeddings[k] = task.embeddings[k]
               /\ \A k \in DOMAIN task.errors :
                     k \in DOMAIN after.errors /\ after.errors[k] = task.errors[k]
               /\ after.successCount + after.failureCount =
                     Cardinality(DOMAIN after.embeddings) + Cardinality(DOMAIN after.errors)
               /\ task' = Idle <=> ~(task.i + task.batchSize < Len(task.texts))
               /\ task' = Idle =>
                     /\ ~result'.thrown
                     /\ after.successCount + after.failureCount = Len(task.texts)
                     /\ DOMAIN after.embeddings \cup DOMAIN after.errors
                           = 0..(Len(task.texts) - 1)
                     /\ DOMAIN after.embeddings \cap DOMAIN after.errors = {}
                     /\ calls = task.texts
         ]_vars

\* embedBatch has returned with a failed text before an embedded one
C30_Witness ==
    /\ task = Idle
    /\ ~result.thrown
    /\ "embeddings" \in DOMAIN result.value
    /\ 0 \in DOMAIN result.value.errors
    /\ 1 \in DOMAIN result.value.embeddings
    /\ result.value.successCount + result.value.failureCount = MaxTexts

\* the request the client has just sent carries filter f as its filter field,
\* or no filter field when f is null or absent
SentWithFilter(f) ==
    /\ ~result'.thrown
    /\ Len(calls') = 1
    /\ LET body == JSONparse(calls'[1].body)
       IN IF f \in {Null, Undefined}
          THEN "filter" \notin DOMAIN body
          ELSE /\ "filter" \in DOMAIN body
               /\ body.filter = Deep(f, conditions, MaxConds)

====
